---- MODULE Spec2Model ----
(***************************************************************************)
(* Verification model of the tender pipeline (mbabi33/Tenders-Project1206).*)
(*                                                                         *)
(* The module holds one state machine per store of the pipeline:           *)
(*   Spec         the three download-task tables, their tab parsers and    *)
(*                the three downloader scripts;                            *)
(*   SpecScrape   the scraper's reconciliation against data_urls.csv;      *)
(*   SpecDecide   the skip/process decision of the scraper on its own;     *)
(*   SpecContract the two contract-tab parsers and their stores;           *)
(*   SpecTender   the tenders tables of the main-tab and bid-tab parsers.  *)
(* Every specification leaves the variables of the other stores unchanged. *)
(***************************************************************************)
EXTENDS Integers, Sequences, FiniteSets, TLC

(* ------------------------------ bounds -------------------------------- *)
\* links in one snapshot
MaxLinks == 2
\* rows of a task table
MaxTasks == 2
\* largest -batch_size argument tried
MaxBatch == 2
\* rows of a payments, amendments or contracts table
MaxRows == 2
\* payment rows and amendment rows in one snapshot
MaxCells == 1
\* saved tenders in the snapshot directory
MaxFiles == 2
\* tenders one run of the scraper collects
MaxCollected == 2
\* rows of the frame loaded from data_urls.csv
MaxExisting == 1
\* characters of an amount text
MaxAmountLen == 3
\* rows of a bid table
MaxBids == 3
\* characters of the code and of the id in a file name
MaxPart == 2
\* words of a date cell
MaxWords == 3
\* INSERTs one snapshot leads to
MaxWrites == 3

(* ------------------------- values of the stores ----------------------- *)
\* SQL NULL / Python None in a text column
NULL == "NULL"
\* a NULL local_path; a stored path is the tuple of the parts os.path.join
\* and the f-string put together
NoPath == << >>
\* a file on disk: absent, or present with its content (a sequence of lines)
NoFile == [ exists |-> FALSE, content |-> << >> ]
File(content) == [ exists |-> TRUE, content |-> content ]
\* no -batch_size argument (argparse default None)
NoBatch == -1

\* the tender (application) ids the snapshots are about
Tenders == {1, 2}
\* the document URLs and the file names the snapshots mention
Urls == {"u1", "u2"}
Names == {"a.pdf", "b"}
\* the (file name, URL) links the app_docs snapshots mention
AppLinks == { <<"a.pdf", "u1">>, <<"b", "u1">>, <<"b", "u2">> }
\* section ids: the file list's fixed id (parse_filelist_structure)
Sections == {"main_documentation"}
\* the extensions a downloader can end up with ('' when none is found)
Exts == {"", ".pdf"}

\* the columns of tnd_agr_files (parse_agr_docs.init_db)
AgrFilesColumns == {"id", "tender_id", "file_type", "url", "name", "upload_date",
                    "author", "download_status"}

VARIABLES
    \* docs.db, agency.db, agr.db : the download-task tables (row id = index)
    tnd_app_doc_files, tnd_agency_docs, tnd_agr_files,
    \* .last_batch_ids.txt and the three manifest CSV files
    last_batch_ids, manifest_app_doc, manifest_agency_doc, manifest_agr_doc,
    \* the downloader process: position, script, its local variables
    pc, script, tender_ids_to_process, files_to_download,
    \* what the last loop iteration did: [script, id, outcome, before]
    last_attempt

dlvars == << tnd_app_doc_files, tnd_agency_docs, tnd_agr_files,
             last_batch_ids, manifest_app_doc, manifest_agency_doc, manifest_agr_doc,
             pc, script, tender_ids_to_process, files_to_download,
             last_attempt >>

VARIABLES
    \* the scraper (C17.py): data_urls.csv, the DataFrame loaded from it, the
    \* --update flag, the tenders collected in stage 1, its position, the
    \* position and the counters of the stage 2 loop
    csv_file, existing_tenders_df, UPDATE_FLAG, all_data, sc_pc, index,
    processed_count, skipped_count,
    \* the last decision of the stage 2 loop, and for every application id the
    \* summary the last final save persisted (history)
    last_decision, persisted

scvars == << csv_file, existing_tenders_df, UPDATE_FLAG, all_data, sc_pc, index,
             processed_count, skipped_count, last_decision, persisted >>

VARIABLES
    \* agr.db beside tnd_agr_files (parse_agr_docs)
    tnd_agr_doc, tnd_agr_payments, tnd_contract_changes,
    \* contracts.db (deep_parse_agr): its tenders and contracts tables
    contract_tenders, contracts

ctvars == << tnd_agr_doc, tnd_agr_payments, tnd_contract_changes,
             contract_tenders, contracts >>

VARIABLES
    \* the snapshot directory the scraper's save_tab_pages writes into
    html_dir,
    \* the tenders table of parse_app_main and the one of parse_app_bids
    main_tenders, bids_tenders,
    \* the running tab parser, the files it has still to parse, and for every
    \* application id the row its latest parse of the run produced (history)
    td_pc, html_files, tender_parsed

tdvars == << html_dir, main_tenders, bids_tenders, td_pc, html_files, tender_parsed >>

VARIABLES
    \* an amount text handed to an amount parser, and what the parser made of
    \* it: [fn, raised, value]
    amount_str, amount_out,
    \* a saved *_app_bids.html snapshot whose last ktable has rows, the bids
    \* table of parse_app_bids, the list bids_data of the last parse that
    \* reached the ranking, and how the last parse ended
    bids_page, bids, bids_data, bids_outcome

VARIABLES
    \* two runs of a downloader on one database: the run whose turn it is
    \* (its position and local variables are pc, script,
    \* tender_ids_to_process and files_to_download) and the position and
    \* local variables of the run that waits
    active_run, other_run

wkvars == << active_run, other_run >>

VARIABLES
    \* the contract block of a contract tab whose number and amount are
    \* assembled, and the contract assembled from it
    contract_block, contract_out

cbvars == << contract_block, contract_out >>

VARIABLES
    \* the name of a file handed to ContractParser.parse_file, and what
    \* extract_tender_info_from_filename returned for it
    filename, filename_out

fnamevars == << filename, filename_out >>

VARIABLES
    \* a response that has been saved (its content-type header, the URL and
    \* the file name of the task) and the extension chosen for the file
    response, extension_out,
    \* a text handed to a datetime parser and what the parser made of it
    datetime_text, dt_out

\* --date-from and --date-to of the last run of download_app_doc_files
VARIABLE date_filter

VARIABLES
    \* a tab parser going through the snapshots of a directory on one
    \* connection: the parser, the files it has still to process, the rows of
    \* the store (persisted) and those of the open transaction (pending)
    batch_parser, batch_files, conn,
    \* history: the rows written for a file before its processing failed
    failed_rows

txvars == << batch_parser, batch_files, conn, failed_rows >>

\* how the last run of download_agr_docs ended
VARIABLE agr_run
extvars == << response, extension_out >>
dtvars == << datetime_text, dt_out >>

\* the arguments and results of the functions followed one call at a time
fnvars == << cbvars, fnamevars, extvars, dtvars, date_filter, txvars, agr_run >>

bdvars == << amount_str, amount_out, bids_page, bids, bids_data, bids_outcome, wkvars,
             fnvars >>

vars == << dlvars, scvars, ctvars, tdvars, bdvars >>

\* everything outside the download subsystem but the contract tables, which
\* share agr.db with tnd_agr_files
nondlvars == << scvars, ctvars, tdvars, bdvars >>

(* ------------------------------ helpers ------------------------------- *)
Range(s) == { s[i] : i \in 1..Len(s) }

RECURSIVE SeqsUpTo(_, _)
\* all sequences over S of length at most n
SeqsUpTo(S, n) ==
    IF n = 0 THEN { << >> }
    ELSE LET shorter == SeqsUpTo(S, n - 1)
         IN  shorter \cup { Append(s, x) : s \in shorter, x \in S }

RECURSIVE SortedSeq(_)
\* the ascending sequence of a finite set of integers (ORDER BY)
SortedSeq(S) ==
    IF S = {} THEN << >>
    ELSE LET m == CHOOSE x \in S : \A y \in S : x <= y
         IN  << m >> \o SortedSeq(S \ {m})

\* the first n elements of s (SQL LIMIT n, n >= 0)
Limit(s, n) == SubSeq(s, 1, IF n < Len(s) THEN n ELSE Len(s))

\* The three stores (docs.db, agency.db, agr.db) share nothing but
\* .last_batch_ids.txt, so one behaviour follows one store: a tab parser runs
\* only while the task tables of the other two stores are empty.
OnlyAppDocs == tnd_agency_docs = << >> /\ tnd_agr_files = << >> /\ tnd_agr_doc = {}
OnlyAgencyDocs == tnd_app_doc_files = << >> /\ tnd_agr_files = << >> /\ tnd_agr_doc = {}
OnlyAgrFiles == tnd_app_doc_files = << >> /\ tnd_agency_docs = << >>

(* --------------------------- tab parsers ------------------------------ *)
\* INSERT OR IGNORE INTO tnd_app_doc_files: UNIQUE(tender_db_id, section_id, file_name)
InsertAppDocFile(table, row) ==
    IF \E i \in 1..Len(table) :
           /\ table[i].tender_db_id = row.tender_db_id
           /\ table[i].section_id = row.section_id
           /\ table[i].file_name = row.file_name
    THEN table
    ELSE Append(table, row)

\* INSERT OR IGNORE INTO tnd_agency_docs: UNIQUE(tender_id, doc_url)
InsertAgencyDoc(table, row) ==
    IF \E i \in 1..Len(table) :
           /\ table[i].tender_id = row.tender_id
           /\ table[i].doc_url = row.doc_url
    THEN table
    ELSE Append(table, row)

\* INSERT OR IGNORE INTO tnd_agr_files: url TEXT UNIQUE
InsertAgrFile(table, row) ==
    IF \E i \in 1..Len(table) : table[i].url = row.url
    THEN table
    ELSE Append(table, row)

RECURSIVE InsertAll(_, _, _)
\* the rows of a snapshot are inserted one by one, in document order
InsertAll(Ins(_, _), table, rows) ==
    IF rows = << >> THEN table
    ELSE InsertAll(Ins, Ins(table, Head(rows)), Tail(rows))

\* the rows parse_filelist_structure / parse_qa_structure build for a snapshot
AppDocRows(tender_db_id, section_id, links) ==
    [ i \in 1..Len(links) |->
        [ tender_db_id |-> tender_db_id, section_id |-> section_id,
          file_name |-> links[i][1], file_url |-> links[i][2],
          local_path |-> NoPath, download_status |-> "pending" ] ]

AgencyDocRows(tender_id, anchors) ==
    [ i \in 1..Len(anchors) |->
        [ tender_id |-> tender_id, doc_url |-> anchors[i],
          local_path |-> NoPath, download_status |-> "pending" ] ]

\* tnd_agr_files has no local_path column; download_status takes its DEFAULT
AgrFileRows(tender_id, links) ==
    [ i \in 1..Len(links) |->
        [ tender_id |-> tender_id, url |-> links[i],
          download_status |-> "pending" ] ]

\* parser_app_docs.process_html_file on pg_<code>_<t>_app_docs.html
ParseAppDocs ==
    /\ \E t \in Tenders, section_id \in Sections,
          links \in SeqsUpTo(AppLinks, MaxLinks) :
           LET after == InsertAll(InsertAppDocFile, tnd_app_doc_files,
                                  AppDocRows(t, section_id, links))
           IN  /\ OnlyAppDocs
               /\ Len(after) <= MaxTasks
               /\ tnd_app_doc_files' = after
               /\ UNCHANGED << tnd_agency_docs, tnd_agr_files, last_batch_ids,
                               manifest_app_doc, manifest_agency_doc, manifest_agr_doc,
                               pc, script, tender_ids_to_process, files_to_download,
                               last_attempt >>
    /\ UNCHANGED nondlvars

\* parse_agency_docs.process_html on pg_<code>_<t>_agency_docs.html
ParseAgencyDocs ==
    /\ \E t \in Tenders, anchors \in SeqsUpTo(Urls, MaxLinks) :
           LET after == InsertAll(InsertAgencyDoc, tnd_agency_docs,
                                  AgencyDocRows(t, anchors))
           IN  /\ OnlyAgencyDocs
               /\ Len(after) <= MaxTasks
               /\ tnd_agency_docs' = after
               /\ UNCHANGED << tnd_app_doc_files, tnd_agr_files, last_batch_ids,
                               manifest_app_doc, manifest_agency_doc, manifest_agr_doc,
                               pc, script, tender_ids_to_process, files_to_download,
                               last_attempt >>
    /\ UNCHANGED nondlvars

(* ------------------ texts, character by character -------------------- *)
\* the thousands separator of the site and the apostrophe, as characters
Backtick == "backtick"
Apostrophe == "apostrophe"
DigitSeq == << "0", "1", "2", "3", "4", "5", "6", "7", "8", "9" >>
DigitChars == { DigitSeq[i] : i \in 1..10 }

\* the characters of s that are not in drop, in order (str.replace to nothing)
RECURSIVE Without(_, _)
Without(s, drop) ==
    IF s = << >> THEN << >>
    ELSE IF Head(s) \in drop THEN Without(Tail(s), drop)
    ELSE << Head(s) >> \o Without(Tail(s), drop)

\* float(text) raises ValueError unless the text is digits with at most one
\* point and at least one digit (texts over digits, separators and the point)
FloatRaises(text) ==
    \/ \E i \in 1..Len(text) : text[i] \notin DigitChars \cup {"."}
    \/ Cardinality({ i \in 1..Len(text) : text[i] = "." }) > 1
    \/ \A i \in 1..Len(text) : text[i] = "."

\* str.replace(from, to) on single characters
ReplaceChar(s, from, to) == [ i \in 1..Len(s) |-> IF s[i] = from THEN to ELSE s[i] ]

\* the value of a digit string (0 when empty)
RECURSIVE NatValue(_)
NatValue(s) ==
    IF s = << >> THEN 0
    ELSE NatValue(SubSeq(s, 1, Len(s) - 1)) * 10
            + ((CHOOSE i \in 1..10 : DigitSeq[i] = s[Len(s)]) - 1)

\* a float is kept as its number of Scale-ths: a text of MaxAmountLen
\* characters has fewer than MaxFrac decimals
MaxFrac == MaxAmountLen
Scale == 10 ^ MaxFrac

\* float(text) for a text it accepts
FloatValue(text) ==
    LET points == { i \in 1..Len(text) : text[i] = "." }
        p == IF points = {} THEN Len(text) + 1 ELSE CHOOSE i \in points : TRUE
        frac == SubSeq(text, p + 1, Len(text))
    IN  NatValue(SubSeq(text, 1, p - 1)) * Scale
            + NatValue(frac) * 10 ^ (MaxFrac - Len(frac))

(* ---------------- contract tab: parse_agr_docs.py -------------------- *)
\* a snapshot pg_<code>_<tender_id>_agr_docs.html, as far as the parser reads
\* it: the number in the contract block (NoBlock without one), the cells of the
\* payment rows, the date of each amendment row, the hrefs of the file rows
NoBlock == "NoBlock"
ContractNumbers == {"c1", "c2"}
DateTexts == {"05.01.2024", ""}
\* amount cells: 100, and 50 followed by the advance marker
AdvanceMark == "avans"
AmountTexts == { << "1", "0", "0" >>, << "5", "0", " ", AdvanceMark >> }
PaymentCells == [ amt_text : AmountTexts, date_text : DateTexts ]

AgrSnapshot(tender_id, contract, payments, changes, links) ==
    [ tender_id |-> tender_id, contract |-> contract, payments |-> payments,
      changes |-> changes, links |-> links ]

\* parse_date: DD.MM.YYYY becomes YYYY-MM-DD, anything without a date None
parse_date(text) == IF text = "05.01.2024" THEN "2024-01-05" ELSE NULL

\* str.replace('.', '', n): the first n points of the text are removed
RECURSIVE DropFirstPoints(_, _)
DropFirstPoints(s, n) ==
    IF s = << >> \/ n = 0 THEN s
    ELSE IF Head(s) = "." THEN DropFirstPoints(Tail(s), n - 1)
    ELSE << Head(s) >> \o DropFirstPoints(Tail(s), n)

\* parse_number: everything but digits, points and commas is dropped, a
\* comma becomes a point, all points but the last are dropped, and a text
\* float() refuses gives 0.0
parse_number(text) ==
    IF text = << >> THEN 0
    ELSE LET kept == Without(text, Range(text) \ (DigitChars \cup {".", ","}))
             clean == ReplaceChar(kept, ",", ".")
             count == Cardinality({ i \in 1..Len(clean) : clean[i] = "." })
             last == IF count > 1 THEN DropFirstPoints(clean, count - 1) ELSE clean
         IN  IF FloatRaises(last) THEN 0 ELSE FloatValue(last)

\* extract_metadata, as far as the row of tnd_agr_doc is modelled
extract_metadata(snapshot) ==
    [ tender_id |-> snapshot.tender_id,
      contract_number |-> IF snapshot.contract = NoBlock THEN NULL ELSE snapshot.contract,
      has_contract |-> IF snapshot.contract = NoBlock THEN 0 ELSE 1 ]

\* extract_payments: one row per table row of the payment block
extract_payments(snapshot) ==
    [ i \in 1..Len(snapshot.payments) |->
        [ tender_id |-> snapshot.tender_id,
          amount |-> parse_number(snapshot.payments[i].amt_text),
          payment_date |-> parse_date(snapshot.payments[i].date_text),
          type |-> IF AdvanceMark \in Range(snapshot.payments[i].amt_text)
                   THEN "advance" ELSE "payment" ] ]

\* extract_changes: one row per amendment row; the date is None when the row
\* shows none
extract_changes(snapshot) ==
    [ i \in 1..Len(snapshot.changes) |->
        [ tender_id |-> snapshot.tender_id, change_number |-> "1",
          date |-> parse_date(snapshot.changes[i]) ] ]

\* INSERT OR REPLACE INTO tnd_agr_doc: tender_id INTEGER PRIMARY KEY
InsertOrReplaceAgrDoc(table, row) ==
    { r \in table : r.tender_id # row.tender_id } \cup { row }

\* INSERT OR IGNORE INTO tnd_agr_payments: UNIQUE(tender_id, amount,
\* payment_date, type); SQLite holds two NULLs of a UNIQUE column distinct
InsertPayment(table, row) ==
    IF \E i \in 1..Len(table) :
           /\ table[i].tender_id = row.tender_id
           /\ table[i].amount = row.amount
           /\ table[i].payment_date = row.payment_date
           /\ row.payment_date # NULL
           /\ table[i].type = row.type
    THEN table
    ELSE Append(table, row)

\* INSERT OR IGNORE INTO tnd_contract_changes: UNIQUE(tender_id, change_number, date)
InsertChange(table, row) ==
    IF \E i \in 1..Len(table) :
           /\ table[i].tender_id = row.tender_id
           /\ table[i].change_number = row.change_number
           /\ table[i].date = row.date
           /\ row.date # NULL
    THEN table
    ELSE Append(table, row)

\* agr.db: the four tables process_file writes
AgrStore == [ doc |-> tnd_agr_doc, payments |-> tnd_agr_payments,
              changes |-> tnd_contract_changes, files |-> tnd_agr_files ]

\* process_file on a snapshot, from a store to the store it commits
ProcessFileResult(store, snapshot) ==
    [ doc |-> InsertOrReplaceAgrDoc(store.doc, extract_metadata(snapshot)),
      payments |-> InsertAll(InsertPayment, store.payments, extract_payments(snapshot)),
      changes |-> InsertAll(InsertChange, store.changes, extract_changes(snapshot)),
      files |-> InsertAll(InsertAgrFile, store.files,
                          AgrFileRows(snapshot.tender_id, snapshot.links)) ]

\* parse_agr_docs.process_file
process_file(snapshot) ==
    LET after == ProcessFileResult(AgrStore, snapshot)
    IN  /\ Len(after.files) <= MaxTasks
        /\ Len(after.payments) <= MaxRows
        /\ Len(after.changes) <= MaxRows
        /\ tnd_agr_doc' = after.doc
        /\ tnd_agr_payments' = after.payments
        /\ tnd_contract_changes' = after.changes
        /\ tnd_agr_files' = after.files

\* process_file on a snapshot whose contract tab shows attached files only
ParseAgrFiles ==
    /\ OnlyAgrFiles
    /\ \E t \in Tenders, links \in SeqsUpTo(Urls, MaxLinks) :
           process_file(AgrSnapshot(t, NoBlock, << >>, << >>, links))
    /\ UNCHANGED << tnd_app_doc_files, tnd_agency_docs, last_batch_ids,
                    manifest_app_doc, manifest_agency_doc, manifest_agr_doc,
                    pc, script, tender_ids_to_process, files_to_download,
                    last_attempt >>
    /\ UNCHANGED << scvars, tdvars, bdvars, contract_tenders, contracts >>

(* ----------------------------- downloaders --------------------------- *)
NoAttempt == [ script |-> "none", id |-> 0, outcome |-> "none",
               before |-> NoPath, was |-> "none" ]

BatchSizes == {NoBatch} \cup (0..MaxBatch)

\* a tender query that leaves out the tenders with a processed file
UntouchedTenderIds(owners, statuses) ==
    SortedSeq({ owners[i] : i \in { j \in 1..Len(owners) : statuses[j] = "pending" } }
              \ { owners[i] : i \in { j \in 1..Len(owners) : statuses[j] # "pending" } })

\* SELECT DISTINCT <owner> FROM <table> WHERE download_status = 'pending'
\* ORDER BY <owner>, over the owner column of the rows
PendingTenderIds(owners, statuses) ==
    SortedSeq({ owners[i] : i \in { j \in 1..Len(owners) : statuses[j] = "pending" } })

RECURSIVE IdsInOrder(_, _, _)
\* the row ids of `ids`, ORDER BY <owner>, id
IdsInOrder(owners, ids, order) ==
    IF order = << >> THEN << >>
    ELSE SortedSeq({ i \in ids : owners[i] = Head(order) })
            \o IdsInOrder(owners, ids, Tail(order))

\* a file query that lacks the condition on download_status
AllFileIds(owners, statuses, tender_ids) ==
    IdsInOrder(owners,
               { i \in 1..Len(owners) : owners[i] \in Range(tender_ids) },
               SortedSeq({ owners[i] : i \in 1..Len(owners) }))

\* SELECT id, ... FROM <table> WHERE download_status = 'pending'
\* AND <owner> IN (tender_ids) ORDER BY <owner>, id
PendingFileIds(owners, statuses, tender_ids) ==
    IdsInOrder(owners,
               { i \in 1..Len(owners) :
                     statuses[i] = "pending" /\ owners[i] \in Range(tender_ids) },
               SortedSeq({ owners[i] : i \in 1..Len(owners) }))

Owners(table, col) == [ i \in 1..Len(table) |-> table[i][col] ]
Statuses(table) == [ i \in 1..Len(table) |-> table[i].download_status ]

\* os.path.splitext(file_name)[1]
SplitExt(file_name) == IF file_name = "a.pdf" THEN ".pdf" ELSE ""

\* an UPDATE that sets the status and forgets local_path
MarkDownloadedWithoutPath(table, id, local_path) ==
    [ table EXCEPT ![id].download_status = "downloaded" ]

\* UPDATE ... SET download_status = 'downloaded', local_path = ? WHERE id = ?
MarkDownloaded(table, id, local_path) ==
    [ table EXCEPT ![id].download_status = "downloaded", ![id].local_path = local_path ]

\* an UPDATE that records the temporary file of the failed attempt
MarkFailedWithTempPath(table, id) ==
    [ table EXCEPT ![id].download_status = "failed", ![id].local_path = << "temp", id >> ]

\* a failure that writes no status
LeftPending(table, id) == table

\* UPDATE ... SET download_status = 'failed' WHERE id = ?
MarkFailed(table, id) ==
    [ table EXCEPT ![id].download_status = "failed" ]

\* export_manifest_to_csv: the CSV (header line, then one line per selected
\* row) is rewritten only when some row is downloaded
ExportManifest(old, table, col) ==
    LET ids == { i \in 1..Len(table) : table[i].download_status = "downloaded" }
        order == SortedSeq(ids)
    IN  IF ids = {} THEN old
        ELSE File(<< << "id", col, "local_path" >> >> \o
                  [ k \in 1..Len(order) |->
                      << order[k], table[order[k]][col], table[order[k]].local_path >> ])

\* step 1 of download_app_doc_files.main: the tender ids of the run
\* (LIMIT is added when batch_size is not None)
SelectAppDocTenderIds(batch_size) ==
    LET all == PendingTenderIds(Owners(tnd_app_doc_files, "tender_db_id"),
                                Statuses(tnd_app_doc_files))
    IN  IF batch_size # NoBatch THEN Limit(all, batch_size) ELSE all

\* step 2 of download_app_doc_files.main: the files the run goes on to fetch
AppDocsFetched(batch_size) ==
    PendingFileIds(Owners(tnd_app_doc_files, "tender_db_id"),
                   Statuses(tnd_app_doc_files), SelectAppDocTenderIds(batch_size))

\* download_app_doc_files.main up to the loop
StartDownloadAppDocs ==
    /\ pc = "idle"
    /\ \E batch_size \in BatchSizes :
        LET ids == SelectAppDocTenderIds(batch_size)
            files == AppDocsFetched(batch_size)
        IN  IF ids = << >> \/ files = << >>
            THEN UNCHANGED << pc, script, tender_ids_to_process, files_to_download >>
            ELSE /\ pc' = "loop"
                 /\ script' = "app_docs"
                 /\ tender_ids_to_process' = ids
                 /\ files_to_download' = files
    /\ UNCHANGED << tnd_app_doc_files, tnd_agency_docs, tnd_agr_files, last_batch_ids,
                    manifest_app_doc, manifest_agency_doc, manifest_agr_doc, last_attempt >>
    /\ UNCHANGED nondlvars

\* one iteration of the loop of download_app_doc_files.main, commit included
DownloadAppDocFile ==
    /\ pc = "loop" /\ script = "app_docs" /\ files_to_download # << >>
    /\ LET file_id == Head(files_to_download)
           row == tnd_app_doc_files[file_id]
           local_path == << "DOWN_doc_files", file_id, row.tender_db_id,
                            SplitExt(row.file_name) >>
       IN  \E ok \in BOOLEAN :
            /\ tnd_app_doc_files' =
                 IF ok THEN MarkDownloaded(tnd_app_doc_files, file_id, local_path)
                 ELSE MarkFailed(tnd_app_doc_files, file_id)
            /\ last_attempt' = [ script |-> "app_docs", id |-> file_id,
                                 outcome |-> IF ok THEN "ok" ELSE "download_failed",
                                 before |-> row.local_path, was |-> row.download_status ]
    /\ files_to_download' = Tail(files_to_download)
    /\ UNCHANGED << tnd_agency_docs, tnd_agr_files, last_batch_ids,
                    manifest_app_doc, manifest_agency_doc, manifest_agr_doc,
                    pc, script, tender_ids_to_process >>
    /\ UNCHANGED nondlvars

\* the end of download_app_doc_files.main: .last_batch_ids.txt and the manifest
FinishDownloadAppDocs ==
    /\ pc = "loop" /\ script = "app_docs" /\ files_to_download = << >>
    /\ last_batch_ids' = File(tender_ids_to_process)
    /\ manifest_app_doc' = ExportManifest(manifest_app_doc, tnd_app_doc_files, "file_name")
    /\ pc' = "idle"
    /\ script' = "none"
    /\ tender_ids_to_process' = << >>
    /\ last_attempt' = NoAttempt
    /\ UNCHANGED << tnd_app_doc_files, tnd_agency_docs, tnd_agr_files,
                    manifest_agency_doc, manifest_agr_doc, files_to_download >>
    /\ UNCHANGED nondlvars

\* --use-last-batch finds no .last_batch_ids.txt: the script logs and returns
BatchFileMissing(use_last_batch) == use_last_batch /\ ~last_batch_ids.exists

\* step 1 of download_agency_docs.main / download_agr_docs.main: the tender ids
\* of the run
SelectTenderIds(owners, statuses, batch_size, use_last_batch) ==
    IF use_last_batch
    THEN last_batch_ids.content
    ELSE LET all == PendingTenderIds(owners, statuses)
         IN  IF batch_size # NoBatch /\ batch_size # 0
             THEN Limit(all, batch_size) ELSE all

\* the files a run of download_agency_docs.main goes on to fetch (none when
\* it returns before its loop)
AgencyDocsFetched(batch_size, use_last_batch) ==
    LET owners == Owners(tnd_agency_docs, "tender_id")
        ids == SelectTenderIds(owners, Statuses(tnd_agency_docs),
                               batch_size, use_last_batch)
    IN  IF BatchFileMissing(use_last_batch) THEN << >>
        ELSE PendingFileIds(owners, Statuses(tnd_agency_docs), ids)

\* download_agency_docs.main up to the loop
StartDownloadAgencyDocs ==
    /\ pc = "idle"
    /\ \E batch_size \in BatchSizes, use_last_batch \in BOOLEAN :
        LET owners == Owners(tnd_agency_docs, "tender_id")
            ids == SelectTenderIds(owners, Statuses(tnd_agency_docs),
                                   batch_size, use_last_batch)
            files == AgencyDocsFetched(batch_size, use_last_batch)
        IN  IF BatchFileMissing(use_last_batch) \/ ids = << >> \/ files = << >>
            THEN UNCHANGED << pc, script, tender_ids_to_process, files_to_download >>
            ELSE /\ pc' = "loop"
                 /\ script' = "agency_docs"
                 /\ tender_ids_to_process' = ids
                 /\ files_to_download' = files
    /\ UNCHANGED << tnd_app_doc_files, tnd_agency_docs, tnd_agr_files, last_batch_ids,
                    manifest_app_doc, manifest_agency_doc, manifest_agr_doc, last_attempt >>
    /\ UNCHANGED nondlvars

\* one iteration of the loop of download_agency_docs.main, commit included
DownloadAgencyDoc ==
    /\ pc = "loop" /\ script = "agency_docs" /\ files_to_download # << >>
    /\ LET file_id == Head(files_to_download)
           row == tnd_agency_docs[file_id]
       IN  \E outcome \in {"ok", "download_failed", "rename_failed"}, extension \in Exts :
            /\ outcome # "ok" => extension = ""
            /\ tnd_agency_docs' =
                 IF outcome = "ok"
                 THEN MarkDownloaded(tnd_agency_docs, file_id,
                        << "DOWN_agency_files", file_id, row.tender_id, extension >>)
                 ELSE MarkFailed(tnd_agency_docs, file_id)
            /\ last_attempt' = [ script |-> "agency_docs", id |-> file_id,
                                 outcome |-> outcome,
                                 before |-> row.local_path, was |-> row.download_status ]
    /\ files_to_download' = Tail(files_to_download)
    /\ UNCHANGED << tnd_app_doc_files, tnd_agr_files, last_batch_ids,
                    manifest_app_doc, manifest_agency_doc, manifest_agr_doc,
                    pc, script, tender_ids_to_process >>
    /\ UNCHANGED nondlvars

\* the end of download_agency_docs.main: the manifest
FinishDownloadAgencyDocs ==
    /\ pc = "loop" /\ script = "agency_docs" /\ files_to_download = << >>
    /\ manifest_agency_doc' =
         ExportManifest(manifest_agency_doc, tnd_agency_docs, "tender_id")
    /\ pc' = "idle"
    /\ script' = "none"
    /\ tender_ids_to_process' = << >>
    /\ last_attempt' = NoAttempt
    /\ UNCHANGED << tnd_app_doc_files, tnd_agency_docs, tnd_agr_files, last_batch_ids,
                    manifest_app_doc, manifest_agr_doc, files_to_download >>
    /\ UNCHANGED nondlvars

\* SELECT id, tender_id, file_url, original_filename FROM tnd_agr_files: the
\* table has the columns url and name instead, so sqlite3 raises
\* OperationalError ("no such column: file_url")
AgrFileQueryRaises == {"file_url", "original_filename"} \ AgrFilesColumns # {}

\* the files a run of download_agr_docs.main goes on to fetch: none when it
\* returns before its loop or when its file query raises
AgrDocsFetched(batch_size, use_last_batch) ==
    LET owners == Owners(tnd_agr_files, "tender_id")
        ids == SelectTenderIds(owners, Statuses(tnd_agr_files),
                               batch_size, use_last_batch)
    IN  IF BatchFileMissing(use_last_batch) \/ ids = << >> \/ AgrFileQueryRaises
        THEN << >>
        ELSE PendingFileIds(owners, Statuses(tnd_agr_files), ids)

\* download_agr_docs.main: the file query names the columns file_url and
\* original_filename, which tnd_agr_files (created by parse_agr_docs.init_db
\* only) does not have, so cur.execute raises sqlite3.OperationalError and the
\* script ends before its loop
StartDownloadAgrDocs ==
    /\ pc = "idle"
    /\ \E batch_size \in BatchSizes, use_last_batch \in BOOLEAN :
        AgrDocsFetched(batch_size, use_last_batch) = << >>
    /\ UNCHANGED vars

\* the downloader process is killed inside its loop (Ctrl-C, crash): what was
\* committed stays, nothing else is written
Interrupt ==
    /\ pc = "loop"
    /\ pc' = "idle"
    /\ script' = "none"
    /\ tender_ids_to_process' = << >>
    /\ files_to_download' = << >>
    /\ last_attempt' = NoAttempt
    /\ UNCHANGED << tnd_app_doc_files, tnd_agency_docs, tnd_agr_files, last_batch_ids,
                    manifest_app_doc, manifest_agency_doc, manifest_agr_doc >>
    /\ UNCHANGED nondlvars

\* In the behaviour of a downstream store, an app-docs downloader run on
\* docs.db ends and leaves its tender ids (ascending, distinct, at least one)
\* in .last_batch_ids.txt
UpstreamBatchRecorded ==
    /\ pc = "idle"
    /\ tnd_app_doc_files = << >>
    /\ tnd_agency_docs # << >> \/ tnd_agr_files # << >>
    /\ \E ids \in (SUBSET Tenders) \ {{}} : last_batch_ids' = File(SortedSeq(ids))
    /\ UNCHANGED << tnd_app_doc_files, tnd_agency_docs, tnd_agr_files,
                    manifest_app_doc, manifest_agency_doc, manifest_agr_doc,
                    pc, script, tender_ids_to_process, files_to_download,
                    last_attempt >>
    /\ UNCHANGED nondlvars

(* ------------- contract tab: the two parsers side by side -------------- *)
\* parse_agr_docs and deep_parse_agr keep separate databases, so one behaviour
\* follows one of them
OnlyAgrStore == contract_tenders = {} /\ contracts = << >>
OnlyContractsDb ==
    /\ tnd_agr_doc = {} /\ tnd_agr_payments = << >>
    /\ tnd_contract_changes = << >> /\ tnd_agr_files = << >>

\* the snapshots of the contract tab whose file table has the rows `links`
AgrSnapshots(links) ==
    { AgrSnapshot(t, contract, payments, changes, links) :
        t \in Tenders, contract \in {NoBlock} \cup ContractNumbers,
        payments \in SeqsUpTo(PaymentCells, MaxCells),
        changes \in SeqsUpTo(DateTexts, MaxCells) }

\* process_file on a snapshot with a contract block, payments and amendments
\* (the attached files are followed by ParseAgrFiles)
ParseAgrDocs ==
    /\ OnlyAgrStore
    /\ \E t \in Tenders, contract \in {NoBlock} \cup ContractNumbers,
          payments \in SeqsUpTo(PaymentCells, MaxCells),
          changes \in SeqsUpTo(DateTexts, MaxCells) :
           process_file(AgrSnapshot(t, contract, payments, changes, << >>))
    /\ UNCHANGED << tnd_app_doc_files, tnd_agency_docs, last_batch_ids,
                    manifest_app_doc, manifest_agency_doc, manifest_agr_doc,
                    pc, script, tender_ids_to_process, files_to_download,
                    last_attempt >>
    /\ UNCHANGED << scvars, tdvars, bdvars, contract_tenders, contracts >>

\* the tender codes in the names of the snapshot files
TenderCodes == {"NAT1", "NAT2"}

\* ContractParser.save_tender: nothing when the tender_id is stored; the INSERT
\* raises IntegrityError when another tender holds the tender_code
\* (tender_code TEXT UNIQUE NOT NULL)
SaveTenderRaises(table, tender_code, tender_id) ==
    /\ \A r \in table : r.tender_id # tender_id
    /\ \E r \in table : r.tender_code = tender_code

save_tender(table, tender_code, tender_id) ==
    IF \E r \in table : r.tender_id = tender_id
    THEN table
    ELSE table \cup { [ tender_id |-> tender_id, tender_code |-> tender_code ] }

\* ContractParser.save_contract: a plain INSERT, contract_id AUTOINCREMENT
save_contract(table, contract_data) == Append(table, contract_data)

\* ContractParser.parse_contract_info, as far as the contracts row is modelled
parse_contract_info(contract, tender_id) ==
    [ tender_id |-> tender_id, contract_number |-> contract ]

\* ContractParser.parse_file on pg_<tender_code>_<tender_id>_agr_docs.html:
\* save_tender commits before the contract block is looked for, and any
\* exception ends the parse of the file
parse_file ==
    /\ OnlyContractsDb
    /\ \E tender_code \in TenderCodes, tender_id \in Tenders,
          contract \in {NoBlock} \cup ContractNumbers :
           IF SaveTenderRaises(contract_tenders, tender_code, tender_id)
           THEN UNCHANGED << contract_tenders, contracts >>
           ELSE /\ contract_tenders' = save_tender(contract_tenders, tender_code, tender_id)
                /\ IF contract = NoBlock
                   THEN UNCHANGED contracts
                   ELSE /\ Len(contracts) < MaxRows
                        /\ contracts' = save_contract(contracts,
                                           parse_contract_info(contract, tender_id))
    /\ UNCHANGED << tnd_agr_doc, tnd_agr_payments, tnd_contract_changes >>
    /\ UNCHANGED << dlvars, scvars, tdvars, bdvars >>

NextContract ==
    \/ ParseAgrDocs
    \/ parse_file

(* ------------- the snapshot directory and the tenders tables ----------- *)
\* a saved tender: the files pg_<tender_no>_<app_id>_<tab>.html of its tabs,
\* with the announcement number its main tab shows (NULL when the label is
\* not on the page)
HtmlFile(tender_no, app_id, page) ==
    [ tender_no |-> tender_no, app_id |-> app_id,
      lotsNumber |-> page.lotsNumber, price_raw |-> page.price_raw ]

\* the texts of the estimated-value cell of a main tab, character by character
PriceTexts == { << "1", "0", "0" >>, << "1", Apostrophe, "0", "0", "0" >> }

\* what the main tab of a tender can show: its announcement number or no
\* such label, and the estimated value
Pages(tender_no) ==
    { [ lotsNumber |-> n, price_raw |-> p ] : n \in {tender_no, NULL}, p \in PriceTexts }

\* save_tab_pages: open(filename, "w") replaces a file of the same name
save_tab_pages(dir, tender_no, app_id, page) ==
    { f \in dir : ~(f.tender_no = tender_no /\ f.app_id = app_id) }
        \cup { HtmlFile(tender_no, app_id, page) }

\* re.search(<price pattern>, price_raw).group(1): the first run of digits,
\* backticks, commas and apostrophes, an optional point, then digits
PriceMatch(price_raw) ==
    LET run == DigitChars \cup { Backtick, ",", Apostrophe }
        starts == { i \in 1..Len(price_raw) : price_raw[i] \in run }
        first == CHOOSE i \in starts : \A j \in starts : i <= j
        stop(from, chars) ==
            CHOOSE e \in (from - 1)..Len(price_raw) :
                /\ \A k \in from..e : price_raw[k] \in chars
                /\ e = Len(price_raw) \/ price_raw[e + 1] \notin chars
        e1 == stop(first, run)
        e2 == IF e1 < Len(price_raw) /\ price_raw[e1 + 1] = "." THEN e1 + 1 ELSE e1
        e3 == stop(e2 + 1, DigitChars)
    IN  IF starts = {} THEN << >> ELSE SubSeq(price_raw, first, e3)

\* parse_tender_file raises on the page: float() of the matched price, from
\* which only backticks and commas are removed
ParseTenderFileRaises(file) ==
    /\ PriceMatch(file.price_raw) # << >>
    /\ FloatRaises(Without(PriceMatch(file.price_raw), { Backtick, "," }))

RECURSIVE Orders(_)
\* the orders os.listdir may return the files in
Orders(S) ==
    IF S = {} THEN { << >> }
    ELSE UNION { { << f >> \o rest : rest \in Orders(S \ {f}) } : f \in S }

NoRow == [ parser |-> "none" ]

\* parse_app_main and parse_app_bids keep separate databases, so one behaviour
\* follows one of them
OnlyMainDb == bids_tenders = << >>
OnlyBidsDb == main_tenders = << >>

\* parse_tender_file: the row built from the file name and the page
MainTenderRow(file) ==
    [ tender_db_id |-> file.app_id, lotsNumber |-> file.lotsNumber,
      source_file |-> << file.tender_no, file.app_id >> ]

\* INSERT INTO tenders of parse_app_main: lotsNumber TEXT UNIQUE is the one
\* constraint; IntegrityError is caught and the file skipped
InsertMainTender(table, row) ==
    IF \E i \in 1..Len(table) :
           table[i].lotsNumber = row.lotsNumber /\ row.lotsNumber # NULL
    THEN table
    ELSE Append(table, row)

\* the digits of the tender number: group 2 of pg_([A-Z]{3})(\d+)_(\d+)_app_bids
TenderNumberDigits(tender_no) == IF tender_no = "NAT1" THEN "1" ELSE "2"

\* parse_bids_file: the tender key taken from the file name
BidsTenderRow(file) ==
    [ application_id |-> file.app_id,
      tender_number |-> TenderNumberDigits(file.tender_no),
      file_name |-> << file.tender_no, file.app_id >> ]

\* INSERT OR IGNORE INTO tenders of parse_app_bids: application_id INTEGER
\* PRIMARY KEY
InsertBidsTender(table, row) ==
    IF \E i \in 1..Len(table) : table[i].application_id = row.application_id
    THEN table
    ELSE Append(table, row)

\* the scraper saves the tabs of a tender (C17.save_tab_pages) while no tab
\* parser runs
SaveTabPages ==
    /\ td_pc = "idle"
    /\ \E tender_no \in TenderCodes, app_id \in Tenders :
         \E page \in Pages(tender_no) :
           LET dir == save_tab_pages(html_dir, tender_no, app_id, page)
           IN  /\ Cardinality(dir) <= MaxFiles
               /\ html_dir' = dir
    /\ UNCHANGED << main_tenders, bids_tenders, td_pc, html_files, tender_parsed >>
    /\ UNCHANGED << dlvars, scvars, ctvars, bdvars >>

\* parse_app_main.main up to its loop: init_db drops and recreates tenders,
\* then the *_app_main.html files of the directory are listed
ParseAppMainStart ==
    /\ td_pc = "idle"
    /\ OnlyMainDb
    /\ main_tenders' = << >>
    /\ tender_parsed' = NoRow
    /\ IF html_dir = {}
       THEN UNCHANGED << td_pc, html_files >>
       ELSE /\ td_pc' = "app_main"
            /\ html_files' \in Orders(html_dir)
    /\ UNCHANGED << html_dir, bids_tenders >>
    /\ UNCHANGED << dlvars, scvars, ctvars, bdvars >>

\* one iteration of the loop of parse_app_main.main: parse_tender_file; the
\* loop has no try, so an exception of parse_tender_file ends the script
ParseTenderFile ==
    /\ td_pc = "app_main"
    /\ IF ParseTenderFileRaises(Head(html_files))
       THEN /\ html_files' = << >>
            /\ td_pc' = "idle"
            /\ UNCHANGED << main_tenders, tender_parsed >>
       ELSE LET row == MainTenderRow(Head(html_files))
            IN  /\ main_tenders' = InsertMainTender(main_tenders, row)
                /\ tender_parsed' = [ parser |-> "app_main", row |-> row ]
                /\ html_files' = Tail(html_files)
                /\ td_pc' = IF Tail(html_files) = << >> THEN "idle" ELSE "app_main"
    /\ UNCHANGED << html_dir, bids_tenders >>
    /\ UNCHANGED << dlvars, scvars, ctvars, bdvars >>

\* parse_app_bids.main up to its loop: init_db drops and recreates the tables
ParseAppBidsStart ==
    /\ td_pc = "idle"
    /\ OnlyBidsDb
    /\ bids_tenders' = << >>
    /\ tender_parsed' = NoRow
    /\ IF html_dir = {}
       THEN UNCHANGED << td_pc, html_files >>
       ELSE /\ td_pc' = "app_bids"
            /\ html_files' \in Orders(html_dir)
    /\ UNCHANGED << html_dir, main_tenders >>
    /\ UNCHANGED << dlvars, scvars, ctvars, bdvars >>

\* one iteration of the loop of parse_app_bids.main: the tender key of
\* parse_bids_file
ParseBidsFile ==
    /\ td_pc = "app_bids"
    /\ LET row == BidsTenderRow(Head(html_files))
       IN  /\ bids_tenders' = InsertBidsTender(bids_tenders, row)
           /\ tender_parsed' = [ parser |-> "app_bids", row |-> row ]
    /\ html_files' = Tail(html_files)
    /\ td_pc' = IF Tail(html_files) = << >> THEN "idle" ELSE "app_bids"
    /\ UNCHANGED << html_dir, main_tenders >>
    /\ UNCHANGED << dlvars, scvars, ctvars, bdvars >>

NextTender ==
    \/ SaveTabPages
    \/ ParseAppMainStart
    \/ ParseTenderFile
    \/ ParseAppBidsStart
    \/ ParseBidsFile

(* --------------------------- scraper: C17.py --------------------------- *)
\* pandas' NaN, the value of a cell a CSV row or a concatenated frame lacks:
\* it equals no scraped string
NaN == "NaN"
StartDates == {"2024-01-01", "2024-01-02"}
EndDates == {"2024-02-01", "2024-02-02"}
TenderStatuses == {"open", "closed"}
Tokens == {"k1", "k2"}

\* an entry of all_data: a tender of the search listing
Collected ==
    [ application_id : Tenders, token : Tokens, tender_num : TenderCodes,
      tender_start : StartDates, tender_end : EndDates, tender_status : TenderStatuses ]

\* the columns load_existing_app_ids requires, and the ones the final save
\* writes for the collected tenders
RequiredCols == {"application_id", "tender_num", "tender_start", "tender_end",
                 "tender_status"}
SavedCols == {"tender_num", "application_id", "token", "tender_start", "tender_end"}

\* a DataFrame row cut or widened to the columns cols (NaN where it has none)
Reindex(row, cols) ==
    [ c \in cols |-> IF c \in DOMAIN row THEN row[c] ELSE NaN ]

\* load_existing_app_ids: the five columns of data_urls.csv, or an empty frame
\* when the file is missing or lacks one of them
load_existing_app_ids(file) ==
    IF file.exists /\ RequiredCols \subseteq file.content.columns
    THEN [ i \in 1..Len(file.content.rows) |->
             Reindex(file.content.rows[i], RequiredCols) ]
    ELSE << >>

\* existing_tenders_df[existing_tenders_df['application_id'] == str(app_id)]
ExistingTender(df, app_id) ==
    SelectSeq(df, LAMBDA r : r.application_id = app_id)

\* a decision that compares three of the four fields
ShouldProcessIgnoringStatus(flag, df, tender_info) ==
    IF flag THEN TRUE
    ELSE LET existing_tender == ExistingTender(df, tender_info.application_id)
         IN  IF existing_tender # << >>
             THEN ~ ( /\ existing_tender[1].tender_num = tender_info.tender_num
                      /\ existing_tender[1].tender_start = tender_info.tender_start
                      /\ existing_tender[1].tender_end = tender_info.tender_end )
             ELSE TRUE

\* the decision of the stage 2 loop (should_process)
ShouldProcess(flag, df, tender_info) ==
    IF flag THEN TRUE
    ELSE LET existing_tender == ExistingTender(df, tender_info.application_id)
         IN  IF existing_tender # << >>
             THEN ~ ( /\ existing_tender[1].tender_num = tender_info.tender_num
                      /\ existing_tender[1].tender_start = tender_info.tender_start
                      /\ existing_tender[1].tender_end = tender_info.tender_end
                      /\ existing_tender[1].tender_status = tender_info.tender_status )
             ELSE TRUE

\* drop_duplicates(subset=['application_id'], keep='last')
DropDuplicatesKeepLast(df) ==
    LET kept == { i \in 1..Len(df) :
                    \A j \in (i + 1)..Len(df) :
                        df[j].application_id # df[i].application_id }
        order == SortedSeq(kept)
    IN  [ k \in 1..Len(order) |-> df[order[k]] ]

\* the final save of CSV_FILE: the collected tenders without 'Tender Status';
\* appended to the loaded frame and de-duplicated when that frame is not empty
FinalCsv(file, existing, data) ==
    LET new_tender_data_df == [ i \in 1..Len(data) |-> Reindex(data[i], SavedCols) ]
        all_cols == RequiredCols \cup SavedCols
        concat == [ i \in 1..Len(existing) |-> Reindex(existing[i], all_cols) ]
                    \o [ i \in 1..Len(data) |-> Reindex(new_tender_data_df[i], all_cols) ]
    IN  IF data = << >> THEN file
        ELSE IF existing # << >>
             THEN File([ columns |-> all_cols, rows |-> DropDuplicatesKeepLast(concat) ])
             ELSE File([ columns |-> SavedCols, rows |-> new_tender_data_df ])

\* the four compared fields of a collected tender
Summary(tender_info) ==
    [ tender_num |-> tender_info.tender_num, tender_start |-> tender_info.tender_start,
      tender_end |-> tender_info.tender_end, tender_status |-> tender_info.tender_status ]

NoSummary == [ tender_num |-> NULL ]
NoDecision == [ application_id |-> 0 ]

\* what a run persists: the summaries of its collected tenders, the last one
\* for an application id collected twice
PersistedAfter(old, data) ==
    [ a \in Tenders |->
        IF \E i \in 1..Len(data) : data[i].application_id = a
        THEN Summary(data[CHOOSE i \in 1..Len(data) :
                            /\ data[i].application_id = a
                            /\ \A j \in (i + 1)..Len(data) : data[j].application_id # a])
        ELSE old[a] ]

\* the listing a run of the scraper walks through: every tender once
Listing ==
    { r \in Collected : r.token = "k1" /\ r.tender_num = "NAT1"
                        /\ r.tender_start = "2024-01-01" /\ r.tender_end = "2024-02-01" }
Listings ==
    { data \in SeqsUpTo(Listing, MaxCollected) :
        \A i, j \in 1..Len(data) : i # j => data[i].application_id # data[j].application_id }

\* a run of C17.py up to stage 2: the arguments, load_existing_app_ids, and
\* stage 1, which collects the tenders of the listing
StartScrape ==
    /\ sc_pc = "idle"
    /\ \E flag \in BOOLEAN, data \in Listings :
           /\ UPDATE_FLAG' = flag
           /\ all_data' = data
    /\ existing_tenders_df' = load_existing_app_ids(csv_file)
    /\ sc_pc' = "stage2"
    /\ index' = 0
    /\ processed_count' = 0
    /\ skipped_count' = 0
    /\ last_decision' = NoDecision
    /\ UNCHANGED << csv_file, persisted >>
    /\ UNCHANGED << dlvars, ctvars, tdvars, bdvars >>

\* one iteration of the stage 2 loop: the decision, then either the skip or
\* save_tab_pages
Stage2Step ==
    /\ sc_pc = "stage2"
    /\ index < Len(all_data)
    /\ LET tender_info == all_data[index + 1]
           should_process == ShouldProcess(UPDATE_FLAG, existing_tenders_df, tender_info)
       IN  /\ last_decision' = [ application_id |-> tender_info.application_id,
                                 tender_info |-> tender_info,
                                 should_process |-> should_process ]
           /\ IF should_process
              THEN /\ processed_count' = processed_count + 1
                   /\ \E page \in Pages(tender_info.tender_num) :
                        html_dir' = save_tab_pages(html_dir, tender_info.tender_num,
                                        tender_info.application_id, page)
                   /\ UNCHANGED skipped_count
              ELSE /\ skipped_count' = skipped_count + 1
                   /\ UNCHANGED << processed_count, html_dir >>
    /\ index' = index + 1
    /\ UNCHANGED << csv_file, existing_tenders_df, UPDATE_FLAG, all_data, sc_pc, persisted >>
    /\ UNCHANGED << main_tenders, bids_tenders, td_pc, html_files, tender_parsed >>
    /\ UNCHANGED << dlvars, ctvars, bdvars >>

\* the end of the run: the final save of CSV_FILE
FinalSave ==
    /\ sc_pc = "stage2"
    /\ index = Len(all_data)
    /\ csv_file' = FinalCsv(csv_file, existing_tenders_df, all_data)
    /\ persisted' = PersistedAfter(persisted, all_data)
    /\ sc_pc' = "idle"
    /\ last_decision' = NoDecision
    /\ UNCHANGED << existing_tenders_df, UPDATE_FLAG, all_data, index,
                    processed_count, skipped_count >>
    /\ UNCHANGED << dlvars, ctvars, tdvars, bdvars >>

NextScrape ==
    \/ StartScrape
    \/ Stage2Step
    \/ FinalSave

\* the frames a data_urls.csv with the five required columns loads as: at most
\* one row per application id
ExistingRows ==
    [ application_id : Tenders, tender_num : {"NAT1"}, tender_start : {"2024-01-01"},
      tender_end : {"2024-02-01"}, tender_status : {"open", NaN} ]
ExistingFrames ==
    { df \in SeqsUpTo(ExistingRows, MaxExisting) :
        \A i, j \in 1..Len(df) : i # j => df[i].application_id # df[j].application_id }

NextDecide ==
    \/ Stage2Step
    \/ FinalSave

(* ------------------------- the amount parsers -------------------------- *)
\* the characters of an amount text: digits, the point, the comma, the
\* thousands separator, a blank and a letter
AmountChars == { "1", "2", ".", ",", Backtick, " ", "x" }
\* two amounts as the site prints them
SiteAmounts ==
    { << "5", "0", Backtick, "9", "9", "9", ".", "7", "2" >>,
      << "1", Backtick, "2", "3", "4", ",", "5", "6" >> }
AmountStrings == SeqsUpTo(AmountChars, MaxAmountLen) \cup SiteAmounts

NoAmount == [ fn |-> "none", raised |-> FALSE, value |-> 0 ]
Returned(fn, value) == [ fn |-> fn, raised |-> FALSE, value |-> value ]
Raised(fn) == [ fn |-> fn, raised |-> TRUE, value |-> 0 ]

\* str.strip() over the blank
RECURSIVE Strip(_)
Strip(s) ==
    IF s = << >> THEN s
    ELSE IF Head(s) = " " THEN Strip(Tail(s))
    ELSE IF s[Len(s)] = " " THEN Strip(SubSeq(s, 1, Len(s) - 1))
    ELSE s

\* parse_agr_docs.parse_number as a call: it catches the ValueError itself
ParseNumberCall(text) == Returned("parse_number", parse_number(text))

\* parse_app_bids.clean_amount: separator and commas removed, stripped, and
\* float() of what is left, which raises on anything but a number
clean_amount(text) ==
    IF text = << >> THEN Returned("clean_amount", 0)
    ELSE LET cleaned_str == Strip(Without(text, { Backtick, "," }))
         IN  IF FloatRaises(cleaned_str) THEN Raised("clean_amount")
             ELSE Returned("clean_amount", FloatValue(cleaned_str))

\* re.search(([\d\.]+)\s*(\D+), t): the leftmost run of digits and points,
\* as long as it can be and still be followed by a character that is no
\* digit, as << start, end >>; << 0, 0 >> without a match
AmountRun(t) ==
    LET runs == { se \in (1..Len(t)) \X (1..Len(t)) :
                    /\ se[1] <= se[2] /\ se[2] < Len(t)
                    /\ \A k \in se[1]..se[2] : t[k] \in DigitChars \cup {"."}
                    /\ t[se[2] + 1] \notin DigitChars }
    IN  IF runs = {} THEN << 0, 0 >>
        ELSE LET start == CHOOSE a \in { se[1] : se \in runs } :
                              \A se \in runs : a <= se[1]
                 end == CHOOSE b \in { se[2] : se \in { r \in runs : r[1] = start } } :
                              \A se \in runs : se[1] = start => se[2] <= b
             IN  << start, end >>

\* deep_parse_agr.parse_currency_amount, the amount: separator removed, comma
\* to point, float() of group 1 of the match, which is not guarded
parse_currency_amount(text) ==
    LET t == ReplaceChar(Without(text, { Backtick }), ",", ".")
        run == AmountRun(t)
    IN  IF run = << 0, 0 >> THEN Returned("parse_currency_amount", 0)
        ELSE LET group1 == SubSeq(t, run[1], run[2])
             IN  IF FloatRaises(group1) THEN Raised("parse_currency_amount")
                 ELSE Returned("parse_currency_amount", FloatValue(group1))

\* the lari word of the site and the code it stands for
LariWord == "lari"
GEL == << "GEL" >>

\* deep_parse_agr.parse_currency_amount, the currency: group 2 of the match
\* (the characters that are no digits after the run) stripped, GEL when it
\* holds the lari word or when nothing matches
CurrencyOfAmount(text) ==
    LET t == ReplaceChar(Without(text, { Backtick }), ",", ".")
        run == AmountRun(t)
        stops == { k \in (run[2] + 1)..Len(t) : t[k] \in DigitChars }
        last == IF stops = {} THEN Len(t)
                ELSE (CHOOSE k \in stops : \A j \in stops : k <= j) - 1
        group2 == Strip(SubSeq(t, run[2] + 1, last))
    IN  IF run = << 0, 0 >> \/ LariWord \in Range(group2) THEN GEL ELSE group2

\* an amount cell is read: the text is handed to one of the parsers
ReadAmount ==
    /\ amount_out = NoAmount
    /\ \E text \in AmountStrings : amount_str' = text
    /\ UNCHANGED << amount_out, bids_page, bids, bids_data, bids_outcome >>
    /\ UNCHANGED << dlvars, scvars, ctvars, tdvars, wkvars, fnvars >>

ParseNumber ==
    /\ amount_out' = ParseNumberCall(amount_str)
    /\ UNCHANGED << amount_str, bids_page, bids, bids_data, bids_outcome >>
    /\ UNCHANGED << dlvars, scvars, ctvars, tdvars, wkvars, fnvars >>

CleanAmount ==
    /\ amount_out' = clean_amount(amount_str)
    /\ UNCHANGED << amount_str, bids_page, bids, bids_data, bids_outcome >>
    /\ UNCHANGED << dlvars, scvars, ctvars, tdvars, wkvars, fnvars >>

ParseCurrencyAmount ==
    /\ amount_out' = parse_currency_amount(amount_str)
    /\ UNCHANGED << amount_str, bids_page, bids, bids_data, bids_outcome >>
    /\ UNCHANGED << dlvars, scvars, ctvars, tdvars, wkvars, fnvars >>

NextAmount ==
    \/ ReadAmount
    \/ ParseNumber
    \/ CleanAmount
    \/ ParseCurrencyAmount

InitAmount ==
    /\ amount_str = << >>
    /\ amount_out = NoAmount

(* ---------------------- bids: parse_app_bids.py ----------------------- *)
Bidders == {1, 2}
OfferTexts == { << "3", "0", "0" >>, << "5", "0", "0" >> }
OfferDates == {"01.02.2024 10:00"}

\* a row of the bid table with its four cells: the bidder of the profile
\* link, and in the second cell the strong element with the last offer and
\* the span of class date, either of which the page may lack
BidRows ==
    { r \in [ bidder_id : Bidders, has_strong : BOOLEAN, strong : OfferTexts \cup {<< >>},
              has_date : BOOLEAN, date : OfferDates \cup {""} ] :
        /\ r.has_strong <=> r.strong # << >>
        /\ r.has_date <=> r.date # "" }
BidTables == SeqsUpTo(BidRows, MaxBids)

NoPage == [ exists |-> FALSE, tender_no |-> "", app_id |-> 0, rows |-> << >> ]
BidsPage(tender_no, app_id, rows) ==
    [ exists |-> TRUE, tender_no |-> tender_no, app_id |-> app_id, rows |-> rows ]

\* step 4 of parse_bids_file raises AttributeError on a row: find() gave
\* None for the strong element or for the date span, and get_text is
\* called on it
BidRowRaises(row) ==
    \/ ~ row.has_strong
    \/ ~ row.has_date
    \/ clean_amount(row.strong).raised

\* parse_datetime of the text of the date span
parse_datetime(dt_str) == IF dt_str = "" THEN NULL ELSE << "iso", dt_str >>

\* step 4 for a row that has its elements: the entry appended to bids_data
BidOfRow(row) ==
    [ bidder_id |-> row.bidder_id,
      last_offer_amount |-> clean_amount(row.strong).value,
      last_offer_datetime |-> parse_datetime(row.date) ]

\* an insertion that puts a bid in front of the bids of the same amount
InsertBeforeEqualOffers(sorted, bid) ==
    LET k == Cardinality({ i \in 1..Len(sorted) :
                             sorted[i].last_offer_amount < bid.last_offer_amount })
    IN  SubSeq(sorted, 1, k) \o << bid >> \o SubSeq(sorted, k + 1, Len(sorted))

\* list.sort(key=last_offer_amount) is stable: a bid goes behind the bids
\* before it in the list whose amount is not larger
InsertByLastOffer(sorted, bid) ==
    LET k == Cardinality({ i \in 1..Len(sorted) :
                             sorted[i].last_offer_amount <= bid.last_offer_amount })
    IN  SubSeq(sorted, 1, k) \o << bid >> \o SubSeq(sorted, k + 1, Len(sorted))

RECURSIVE SortByLastOffer(_)
SortByLastOffer(list) ==
    IF list = << >> THEN << >>
    ELSE InsertByLastOffer(SortByLastOffer(SubSeq(list, 1, Len(list) - 1)),
                           list[Len(list)])

\* step 5: the sorted list with final_rank = position
RankBids(list) ==
    LET sorted == SortByLastOffer(list)
    IN  [ i \in 1..Len(sorted) |->
            [ bidder_id |-> sorted[i].bidder_id,
              last_offer_amount |-> sorted[i].last_offer_amount,
              last_offer_datetime |-> sorted[i].last_offer_datetime,
              final_rank |-> i ] ]

\* step 6: INSERT OR REPLACE INTO bids, PRIMARY KEY (application_id, bidder_id)
RECURSIVE SaveBids(_, _, _)
SaveBids(table, application_id, list) ==
    IF list = << >> THEN table
    ELSE LET bid == Head(list)
             row == [ application_id |-> application_id,
                      bidder_id |-> bid.bidder_id,
                      last_offer_amount |-> bid.last_offer_amount,
                      last_offer_datetime |-> bid.last_offer_datetime,
                      final_rank |-> bid.final_rank ]
             kept == { b \in table : ~ ( /\ b.application_id = application_id
                                         /\ b.bidder_id = bid.bidder_id ) }
         IN  SaveBids(kept \cup { row }, application_id, Tail(list))

\* the scraper saves the bids tab of a tender, its bid table holding rows
\* (one page per behaviour)
SaveBidsPage ==
    /\ ~ bids_page.exists
    /\ \E tender_no \in TenderCodes, app_id \in Tenders, rows \in BidTables :
         /\ rows # << >>
         /\ bids_page' = BidsPage(tender_no, app_id, rows)
    /\ UNCHANGED << amount_str, amount_out, bids, bids_data, bids_outcome >>
    /\ UNCHANGED << dlvars, scvars, ctvars, tdvars, wkvars, fnvars >>

\* parse_app_bids.main on a directory that holds the saved page: init_db, then
\* parse_bids_file inside the try of the loop. The tender key is committed
\* first; an exception of step 4 leaves the function before step 6
ParseBidsPage ==
    /\ bids_page.exists
    /\ td_pc = "idle"
    /\ bids_tenders' = InsertBidsTender(<< >>, BidsTenderRow(bids_page))
    /\ IF \E i \in 1..Len(bids_page.rows) : BidRowRaises(bids_page.rows[i])
       THEN /\ bids' = {}
            /\ bids_data' = << >>
            /\ bids_outcome' = "raised"
       ELSE LET list == [ i \in 1..Len(bids_page.rows) |-> BidOfRow(bids_page.rows[i]) ]
            IN  /\ bids_data' = RankBids(list)
                /\ bids' = SaveBids({}, bids_page.app_id, RankBids(list))
                /\ bids_outcome' = "saved"
    /\ UNCHANGED << amount_str, amount_out, bids_page >>
    /\ UNCHANGED << html_dir, main_tenders, td_pc, html_files, tender_parsed >>
    /\ UNCHANGED << dlvars, scvars, ctvars, wkvars, fnvars >>

NextBids ==
    \/ SaveBidsPage
    \/ ParseBidsPage

InitBids ==
    /\ bids_page = NoPage
    /\ bids = {}
    /\ bids_data = << >>
    /\ bids_outcome = "none"

(* ------------------ two downloader runs at a time --------------------- *)
Runs == {"first", "second"}
Locals(p, s, ids, files) ==
    [ pc |-> p, script |-> s, tender_ids_to_process |-> ids, files_to_download |-> files ]

\* the operating system lets the other run of the script go on: both are
\* main() of a downloader script, between two of their database statements
SwitchRun ==
    /\ active_run' = CHOOSE r \in Runs : r # active_run
    /\ other_run' = Locals(pc, script, tender_ids_to_process, files_to_download)
    /\ pc' = other_run.pc
    /\ script' = other_run.script
    /\ tender_ids_to_process' = other_run.tender_ids_to_process
    /\ files_to_download' = other_run.files_to_download
    /\ UNCHANGED << tnd_app_doc_files, tnd_agency_docs, tnd_agr_files, last_batch_ids,
                    manifest_app_doc, manifest_agency_doc, manifest_agr_doc, last_attempt >>
    /\ UNCHANGED << scvars, ctvars, tdvars, fnvars >>
    /\ UNCHANGED << amount_str, amount_out, bids_page, bids, bids_data, bids_outcome >>

NextWorkers ==
    \/ ParseAppDocs
    \/ ParseAgencyDocs
    \/ StartDownloadAppDocs
    \/ DownloadAppDocFile
    \/ FinishDownloadAppDocs
    \/ StartDownloadAgencyDocs
    \/ DownloadAgencyDoc
    \/ FinishDownloadAgencyDocs
    \/ SwitchRun

InitWorkers ==
    /\ active_run = "first"
    /\ other_run = Locals("idle", "none", << >>, << >>)

InitDownloads ==
    /\ tnd_app_doc_files = << >>
    /\ tnd_agency_docs = << >>
    /\ tnd_agr_files = << >>
    /\ last_batch_ids = NoFile
    /\ manifest_app_doc = NoFile
    /\ manifest_agency_doc = NoFile
    /\ manifest_agr_doc = NoFile
    /\ pc = "idle"
    /\ script = "none"
    /\ tender_ids_to_process = << >>
    /\ files_to_download = << >>
    /\ last_attempt = NoAttempt

InitContract ==
    /\ tnd_agr_doc = {}
    /\ tnd_agr_payments = << >>
    /\ tnd_contract_changes = << >>
    /\ contract_tenders = {}
    /\ contracts = << >>

InitTender ==
    /\ html_dir = {}
    /\ main_tenders = << >>
    /\ bids_tenders = << >>
    /\ td_pc = "idle"
    /\ html_files = << >>
    /\ tender_parsed = NoRow

InitScrape ==
    /\ csv_file = NoFile
    /\ existing_tenders_df = << >>
    /\ UPDATE_FLAG = FALSE
    /\ all_data = << >>
    /\ sc_pc = "idle"
    /\ index = 0
    /\ processed_count = 0
    /\ skipped_count = 0
    /\ last_decision = NoDecision
    /\ persisted = [ a \in Tenders |-> NoSummary ]

(* ------------- contract block: the number and the amount --------------- *)
USD == << "USD" >>
\* amounts as the site prints them: digits, the separator between digits, at
\* most one point or comma with digits behind it
PrintedAmounts ==
    { t \in SeqsUpTo({ "1", "0", ".", Backtick }, MaxAmountLen) :
        /\ t # << >>
        /\ t[1] \in DigitChars /\ t[Len(t)] \in DigitChars
        /\ \A i \in 1..(Len(t) - 1) : t[i] \in DigitChars \/ t[i + 1] \in DigitChars
        /\ Cardinality({ i \in 1..Len(t) : t[i] = "." }) <= 1
        /\ \A i, j \in 1..Len(t) : t[i] = "." /\ t[j] = Backtick => j < i }
      \cup SiteAmounts \cup { << "1", "0", "0", "0", "0", "0", ".", "0", "0" >> }
SpanAmounts == { << "0" >>, << "2" >>, << "1", ".", "5" >> }

\* a contract block: the line "number/amount: N / A lari" followed by a tag,
\* and the span of class convertme with the id "amount-currency-..." when
\* the block has one
NoSpan == [ has_span |-> FALSE, span_amount |-> << >>, span_currency |-> << >> ]
ContractBlocks ==
    { [ number |-> n, amount_text |-> a, has_span |-> sp.has_span,
        span_amount |-> sp.span_amount, span_currency |-> sp.span_currency ] :
        n \in ContractNumbers, a \in PrintedAmounts,
        sp \in { NoSpan } \cup [ has_span : { TRUE }, span_amount : SpanAmounts,
                                 span_currency : { GEL, USD } ] }

\* group 2 of the pattern on the labelled line: the text between the slash
\* and the next tag
LabelledAmount(block) == block.amount_text \o << " ", LariWord >>

NoContract == [ parser |-> "none", raised |-> FALSE, contract_number |-> "",
                contract_amount |-> 0, contract_currency |-> << >> ]

\* an assembly that takes the amount from the id of the span alone
AmountFromSpanOnly(block) ==
    [ parser |-> "parse_agr_docs", raised |-> FALSE,
      contract_number |-> block.number,
      contract_amount |-> IF block.has_span THEN parse_number(block.span_amount) ELSE 0,
      contract_currency |-> IF block.has_span THEN block.span_currency ELSE GEL ]

\* parse_agr_docs.extract_metadata, number and amount: the id of the span
\* first, the labelled line while the amount is still 0
extract_metadata_amount(block) ==
    LET from_id == IF block.has_span THEN parse_number(block.span_amount) ELSE 0
    IN  [ parser |-> "parse_agr_docs", raised |-> FALSE,
          contract_number |-> block.number,
          contract_amount |-> IF from_id = 0 THEN parse_number(LabelledAmount(block))
                              ELSE from_id,
          contract_currency |-> IF block.has_span THEN block.span_currency ELSE GEL ]

\* deep_parse_agr.parse_contract_info, number and amount: the labelled line
\* only; the currency of parse_currency_amount is dropped and the column
\* contract_amount_currency keeps its default
parse_contract_info_amount(block) ==
    LET amount == parse_currency_amount(LabelledAmount(block))
    IN  [ parser |-> "deep_parse_agr", raised |-> amount.raised,
          contract_number |-> block.number,
          contract_amount |-> amount.value,
          contract_currency |-> GEL ]

ExtractMetadata ==
    /\ contract_out' = extract_metadata_amount(contract_block)
    /\ UNCHANGED << contract_block, fnamevars, extvars, dtvars, date_filter, txvars, agr_run >>
    /\ UNCHANGED << dlvars, scvars, ctvars, tdvars >>
    /\ UNCHANGED << amount_str, amount_out, bids_page, bids, bids_data, bids_outcome, wkvars >>

ParseContractInfo ==
    /\ contract_out' = parse_contract_info_amount(contract_block)
    /\ UNCHANGED << contract_block, fnamevars, extvars, dtvars, date_filter, txvars, agr_run >>
    /\ UNCHANGED << dlvars, scvars, ctvars, tdvars >>
    /\ UNCHANGED << amount_str, amount_out, bids_page, bids, bids_data, bids_outcome, wkvars >>

NextBlock ==
    \/ ExtractMetadata
    \/ ParseContractInfo

(* ------------------- the names of the snapshot files ------------------- *)
UpperChars == { "N" }
NameChars == { "N", "1", "0", "a" }
\* file names put together from an optional foreign prefix, pg_, a code, an
\* id, a tab name and an extension, every part of which may be malformed
FileNames ==
    { prefix \o << "p", "g", "_" >> \o code \o << "_" >> \o id \o << "_" >> \o tab \o ext :
        prefix \in { << >>, << "x" >> },
        code \in SeqsUpTo(NameChars \ { "0" }, MaxPart),
        id \in SeqsUpTo(NameChars \ { "N" }, MaxPart),
        tab \in { << >>, << "agr", "_", "docs" >> },
        ext \in { << >>, << ".html" >>, << ".txt" >> } }

\* the end of the longest run of characters of `class` that starts at i
\* (i - 1 when name[i] is not of the class)
RECURSIVE RunEnd(_, _, _)
RunEnd(name, i, class) ==
    IF i <= Len(name) /\ name[i] \in class THEN RunEnd(name, i + 1, class) ELSE i - 1

\* re.search(pg_([A-Z0-9]+)_(\d+)_, filename) starting at i: the ends of
\* group 1 and group 2, << 0, 0 >> when the pattern does not match there
NameMatchAt(name, i) ==
    LET e1 == RunEnd(name, i + 3, UpperChars \cup DigitChars)
        e2 == RunEnd(name, e1 + 2, DigitChars)
    IN  IF /\ i + 2 <= Len(name) /\ SubSeq(name, i, i + 2) = << "p", "g", "_" >>
           /\ e1 >= i + 3 /\ e1 + 1 <= Len(name) /\ name[e1 + 1] = "_"
           /\ e2 >= e1 + 2 /\ e2 + 1 <= Len(name) /\ name[e2 + 1] = "_"
        THEN << e1, e2 >> ELSE << 0, 0 >>

NoTenderInfo == [ found |-> FALSE, tender_code |-> << >>, tender_id |-> 0 ]

\* extract_tender_info_from_filename: the groups of the leftmost match, the
\* second as an integer; (None, None) without a match
extract_tender_info_from_filename(name) ==
    LET starts == { i \in 1..Len(name) : NameMatchAt(name, i) # << 0, 0 >> }
    IN  IF starts = {} THEN NoTenderInfo
        ELSE LET i == CHOOSE k \in starts : \A j \in starts : k <= j
                 ends == NameMatchAt(name, i)
             IN  [ found |-> TRUE,
                   tender_code |-> SubSeq(name, i + 3, ends[1]),
                   tender_id |-> NatValue(SubSeq(name, ends[1] + 2, ends[2])) ]

\* ContractParser.parse_file on a named file whose page has no contract
\* block: nothing is done without a tender code or with a tender id that is
\* None or 0; otherwise save_tender commits the tender before the contract
\* block is looked for
ParseNamedFile ==
    /\ filename_out = [ called |-> FALSE, info |-> NoTenderInfo ]
    /\ LET info == extract_tender_info_from_filename(filename)
       IN  /\ filename_out' = [ called |-> TRUE, info |-> info ]
           /\ contract_tenders' =
                IF info.found /\ info.tender_id # 0
                THEN save_tender(contract_tenders, info.tender_code, info.tender_id)
                ELSE contract_tenders
    /\ UNCHANGED << filename, cbvars, extvars, dtvars, date_filter, txvars, agr_run >>
    /\ UNCHANGED << tnd_agr_doc, tnd_agr_payments, tnd_contract_changes, contracts >>
    /\ UNCHANGED << dlvars, scvars, tdvars >>
    /\ UNCHANGED << amount_str, amount_out, bids_page, bids, bids_data, bids_outcome, wkvars >>

NextNames ==
    \/ ParseNamedFile

(* ----------------- the date filter of the app-docs run ---------------- *)
\* upload_date of a task: a day, or NULL (parse_qa_structure inserts None)
NoUploadDate == 0
UploadDates == { 1, 2, 3 }
NoDateFilter == [ date_from |-> NoUploadDate, date_to |-> NoUploadDate ]

\* a row of tnd_app_doc_files with its upload_date column
DatedRow(tender_db_id, link, upload_date) ==
    [ tender_db_id |-> tender_db_id, section_id |-> "main_documentation",
      file_name |-> link[1], file_url |-> link[2],
      local_path |-> NoPath, download_status |-> "pending",
      upload_date |-> upload_date ]

\* the tables the parser can have left
DatedTables ==
    { InsertAll(InsertAppDocFile, << >>, rows) :
        rows \in SeqsUpTo({ DatedRow(t, link, d) :
                              t \in Tenders, link \in AppLinks,
                              d \in UploadDates \cup { NoUploadDate } }, MaxTasks) }

\* upload_date BETWEEN ? AND ? (NULL is in no range)
Between(upload_date, date_from, date_to) ==
    /\ upload_date # NoUploadDate
    /\ date_from <= upload_date
    /\ upload_date <= date_to

\* step 1 of download_app_doc_files.main with both --date-from and --date-to:
\* the tenders that have a pending file uploaded in the range
SelectAppDocTenderIdsInRange(batch_size, date_from, date_to) ==
    LET all == SortedSeq({ tnd_app_doc_files[i].tender_db_id :
                             i \in { j \in 1..Len(tnd_app_doc_files) :
                                       /\ tnd_app_doc_files[j].download_status = "pending"
                                       /\ Between(tnd_app_doc_files[j].upload_date,
                                                  date_from, date_to) } })
    IN  IF batch_size # NoBatch THEN Limit(all, batch_size) ELSE all

\* step 2: the pending files of these tenders, whatever their upload_date
AppDocsFetchedInRange(tender_ids, date_from, date_to) ==
    PendingFileIds(Owners(tnd_app_doc_files, "tender_db_id"),
                   Statuses(tnd_app_doc_files), tender_ids)

\* download_app_doc_files.main run with --date-from and --date-to, up to the loop
StartDownloadAppDocsInRange ==
    /\ pc = "idle"
    /\ \E batch_size \in BatchSizes, date_from \in UploadDates, date_to \in UploadDates :
        LET ids == SelectAppDocTenderIdsInRange(batch_size, date_from, date_to)
            files == AppDocsFetchedInRange(ids, date_from, date_to)
        IN  /\ date_filter' = [ date_from |-> date_from, date_to |-> date_to ]
            /\ IF ids = << >> \/ files = << >>
               THEN UNCHANGED << pc, script, tender_ids_to_process, files_to_download >>
               ELSE /\ pc' = "loop"
                    /\ script' = "app_docs"
                    /\ tender_ids_to_process' = ids
                    /\ files_to_download' = files
    /\ UNCHANGED << tnd_app_doc_files, tnd_agency_docs, tnd_agr_files, last_batch_ids,
                    manifest_app_doc, manifest_agency_doc, manifest_agr_doc, last_attempt >>
    /\ UNCHANGED << scvars, ctvars, tdvars >>
    /\ UNCHANGED << amount_str, amount_out, bids_page, bids, bids_data, bids_outcome, wkvars >>
    /\ UNCHANGED << cbvars, fnamevars, extvars, dtvars, txvars, agr_run >>

NextDates ==
    \/ StartDownloadAppDocsInRange
    \/ DownloadAppDocFile
    \/ FinishDownloadAppDocs

(* --------------- one connection for a batch of snapshots --------------- *)
BatchParsers == { "parser_app_docs", "parse_agr_docs" }

\* the rows one snapshot makes the parser write, in the order of the INSERTs
RowsOfFile(f, n) == [ k \in 1..n |-> [ file |-> f, row |-> k ] ]

\* an execute raises sqlite3.Error after some INSERTs of the file: SQLite
\* undoes the failing statement and keeps the transaction open, or has to
\* roll the transaction back; neither handler does anything about it
PendingAfterFailure(pending, written, rolled_back) ==
    IF rolled_back THEN {} ELSE pending \cup written

\* conn.commit(): the open transaction, whoever wrote into it, is persisted
Commit(c, written) ==
    [ c EXCEPT !.persisted = c.persisted \cup c.pending \cup written, !.pending = {} ]

\* one iteration of the loop of parser_app_docs.main: process_html_file on the
\* next file; an exception is caught by main, which prints and goes on
ProcessHtmlFile ==
    /\ batch_parser = "parser_app_docs" /\ conn.state = "open"
    /\ batch_files # << >>
    /\ \E n \in 1..MaxWrites, raises \in BOOLEAN, done \in 0..MaxWrites, rolled_back \in BOOLEAN :
        LET rows == RowsOfFile(Head(batch_files), n)
            written == Range(SubSeq(rows, 1, done))
        IN  /\ done < n
            /\ ~ raises => (done = 0 /\ ~ rolled_back)
            /\ IF raises
               THEN /\ conn' = [ conn EXCEPT !.pending =
                                   PendingAfterFailure(conn.pending, written, rolled_back) ]
                    /\ failed_rows' = failed_rows \cup written
               ELSE /\ conn' = Commit(conn, Range(rows))
                    /\ UNCHANGED failed_rows
    /\ batch_files' = Tail(batch_files)
    /\ UNCHANGED batch_parser
    /\ UNCHANGED << cbvars, fnamevars, extvars, dtvars, date_filter, agr_run >>
    /\ UNCHANGED << dlvars, scvars, ctvars, tdvars >>
    /\ UNCHANGED << amount_str, amount_out, bids_page, bids, bids_data, bids_outcome, wkvars >>

\* one iteration of the loop of parse_agr_docs.main: process_file on the next
\* file; it catches the exception itself, logs and returns False
ProcessFile ==
    /\ batch_parser = "parse_agr_docs" /\ conn.state = "open"
    /\ batch_files # << >>
    /\ \E n \in 1..MaxWrites, raises \in BOOLEAN, done \in 0..MaxWrites, rolled_back \in BOOLEAN :
        LET rows == RowsOfFile(Head(batch_files), n)
            written == Range(SubSeq(rows, 1, done))
        IN  /\ done < n
            /\ ~ raises => (done = 0 /\ ~ rolled_back)
            /\ IF raises
               THEN /\ conn' = [ conn EXCEPT !.pending =
                                   PendingAfterFailure(conn.pending, written, rolled_back) ]
                    /\ failed_rows' = failed_rows \cup written
               ELSE /\ conn' = Commit(conn, Range(rows))
                    /\ UNCHANGED failed_rows
    /\ batch_files' = Tail(batch_files)
    /\ UNCHANGED batch_parser
    /\ UNCHANGED << cbvars, fnamevars, extvars, dtvars, date_filter, agr_run >>
    /\ UNCHANGED << dlvars, scvars, ctvars, tdvars >>
    /\ UNCHANGED << amount_str, amount_out, bids_page, bids, bids_data, bids_outcome, wkvars >>

\* conn.close() after the loop: an open transaction is lost
CloseConnection ==
    /\ conn.state = "open" /\ batch_files = << >>
    /\ conn' = [ conn EXCEPT !.state = "closed", !.pending = {} ]
    /\ UNCHANGED << batch_parser, batch_files, failed_rows >>
    /\ UNCHANGED << cbvars, fnamevars, extvars, dtvars, date_filter, agr_run >>
    /\ UNCHANGED << dlvars, scvars, ctvars, tdvars >>
    /\ UNCHANGED << amount_str, amount_out, bids_page, bids, bids_data, bids_outcome, wkvars >>

NextBatch ==
    \/ ProcessHtmlFile
    \/ ProcessFile
    \/ CloseConnection

(* -------------------- a run of download_agr_docs ---------------------- *)
NoAgrRun == [ ended |-> FALSE, batch_size |-> NoBatch, use_last_batch |-> FALSE,
              pending_before |-> {}, raised |-> FALSE ]

\* download_agr_docs.main from its start to its end: the tender query, then
\* the file query, which raises and ends the script before the loop; the
\* tasks that were pending when it started are kept for the record
RunDownloadAgrDocs ==
    /\ pc = "idle"
    /\ \E batch_size \in BatchSizes, use_last_batch \in BOOLEAN :
        LET ids == SelectTenderIds(Owners(tnd_agr_files, "tender_id"),
                                   Statuses(tnd_agr_files), batch_size, use_last_batch)
        IN  /\ AgrDocsFetched(batch_size, use_last_batch) = << >>
            /\ agr_run' =
                 [ ended |-> TRUE, batch_size |-> batch_size,
                   use_last_batch |-> use_last_batch,
                   pending_before |-> { i \in 1..Len(tnd_agr_files) :
                                          tnd_agr_files[i].download_status = "pending" },
                   raised |-> /\ ~ BatchFileMissing(use_last_batch)
                              /\ ids # << >>
                              /\ AgrFileQueryRaises ]
    /\ UNCHANGED << dlvars, scvars, ctvars, tdvars >>
    /\ UNCHANGED << amount_str, amount_out, bids_page, bids, bids_data, bids_outcome, wkvars >>
    /\ UNCHANGED << cbvars, fnamevars, extvars, dtvars, date_filter, txvars >>

NextAgrRun ==
    \/ ParseAgrFiles
    \/ RunDownloadAgrDocs

(* --------------------- the extension of a download --------------------- *)
ContentTypes == { "", "application/msword", "text/html; charset=utf-8",
                  "application/x-unknown" }
ExtUrls == { "u1", "u.xls?q=1", "u.pdf", "u.download" }
Responses == [ content_type : ContentTypes, url : ExtUrls, title : Names ]
NoExtension == [ script |-> "none", extension |-> "" ]

\* mimetypes.guess_extension of the content type before the first semicolon
\* ('' for None)
guess_extension(content_type) ==
    IF content_type = "application/msword" THEN ".doc"
    ELSE IF content_type = "text/html; charset=utf-8" THEN ".html"
    ELSE ""

\* os.path.splitext(url.split('?')[0])[1]
UrlExt(url) ==
    IF url = "u.xls?q=1" THEN ".xls"
    ELSE IF url = "u.pdf" THEN ".pdf"
    ELSE IF url = "u.download" THEN ".download"
    ELSE ""

\* ext and len(ext) < 6
ShortExt(ext) == ext \in { ".xls", ".pdf", ".doc", ".html" }

\* get_file_extension of download_agency_docs and of download_agr_docs
get_file_extension(content_type, url, title) ==
    IF guess_extension(content_type) # "" THEN guess_extension(content_type)
    ELSE IF ShortExt(UrlExt(url)) THEN UrlExt(url)
    ELSE IF ShortExt(SplitExt(title)) THEN SplitExt(title)
    ELSE ""

\* the three downloaders name the saved file
NameAgencyDoc ==
    /\ extension_out' = [ script |-> "agency_docs",
                          extension |-> get_file_extension(response.content_type,
                                                           response.url, response.title) ]
    /\ UNCHANGED << response, cbvars, fnamevars, dtvars, date_filter, txvars, agr_run >>
    /\ UNCHANGED << dlvars, scvars, ctvars, tdvars >>
    /\ UNCHANGED << amount_str, amount_out, bids_page, bids, bids_data, bids_outcome, wkvars >>

NameAgrFile ==
    /\ extension_out' = [ script |-> "agr_docs",
                          extension |-> get_file_extension(response.content_type,
                                                           response.url, response.title) ]
    /\ UNCHANGED << response, cbvars, fnamevars, dtvars, date_filter, txvars, agr_run >>
    /\ UNCHANGED << dlvars, scvars, ctvars, tdvars >>
    /\ UNCHANGED << amount_str, amount_out, bids_page, bids, bids_data, bids_outcome, wkvars >>

\* download_app_doc_files takes the suffix of the file name before the request
NameAppDocFile ==
    /\ extension_out' = [ script |-> "app_docs", extension |-> SplitExt(response.title) ]
    /\ UNCHANGED << response, cbvars, fnamevars, dtvars, date_filter, txvars, agr_run >>
    /\ UNCHANGED << dlvars, scvars, ctvars, tdvars >>
    /\ UNCHANGED << amount_str, amount_out, bids_page, bids, bids_data, bids_outcome, wkvars >>

NextExtension ==
    \/ NameAgencyDoc
    \/ NameAgrFile
    \/ NameAppDocFile

(* ------------------------ the datetime parsers ------------------------- *)
\* the words of a date cell: "date" is the date SomeDate written DD.MM.YYYY,
\* "time" the time SomeTime written HH:MM, then a blank, and a character
\* that belongs to neither
SomeDate == [ d |-> "05", m |-> "01", y |-> "2024" ]
SomeTime == [ h |-> "10", mi |-> "30" ]
DatetimeTexts == SeqsUpTo({ "date", "time", " ", "x" }, MaxWords)
NoDatetime == [ fn |-> "none", raised |-> FALSE, value |-> << >> ]
None == << >>
IsoDate(date) == << date.y, "-", date.m, "-", date.d >>
IsoDatetime(date, time) == IsoDate(date) \o << " ", time.h, ":", time.mi, ":", "00" >>

\* datetime.strptime(text, '%d.%m.%Y %H:%M') accepts a date, blanks and a time
RECURSIVE Blanks(_)
Blanks(s) == s = << >> \/ (Head(s) = " " /\ Blanks(Tail(s)))
StrptimeRaises(text) ==
    ~ ( /\ Len(text) >= 3 /\ text[1] = "date" /\ text[Len(text)] = "time"
        /\ SubSeq(text, 2, Len(text) - 1) # << >>
        /\ Blanks(SubSeq(text, 2, Len(text) - 1)) )

\* str.split()[0]: the first run of characters that are not blank
RECURSIVE FirstWord(_)
FirstWord(s) ==
    IF s = << >> \/ s[1] = " " THEN << >> ELSE << s[1] >> \o FirstWord(Tail(s))

\* parse_agr_docs.parse_date: re.search of DD.MM.YYYY anywhere in the text
agr_parse_date(text) ==
    IF "date" \in Range(text) THEN IsoDate(SomeDate) ELSE None

\* parse_agr_docs.parse_datetime
agr_parse_datetime(text) ==
    [ fn |-> "parse_agr_docs", raised |-> FALSE,
      value |-> IF text = << >> THEN None
                ELSE IF ~ StrptimeRaises(Strip(text)) THEN IsoDatetime(SomeDate, SomeTime)
                ELSE agr_parse_date(text) ]

\* parse_app_bids.parse_datetime: None on every ValueError
bids_parse_datetime(text) ==
    [ fn |-> "parse_app_bids", raised |-> FALSE,
      value |-> IF text = << >> \/ StrptimeRaises(text) THEN None
                ELSE IsoDatetime(SomeDate, SomeTime) ]

\* ContractParser.parse_datetime: the fallback is parse_date of the first
\* word, computed in the except block, where split()[0] of a text of blanks
\* raises IndexError
deep_parse_datetime(text) ==
    IF ~ StrptimeRaises(text)
    THEN [ fn |-> "deep_parse_agr", raised |-> FALSE,
           value |-> IsoDatetime(SomeDate, SomeTime) ]
    ELSE IF text = << >> THEN [ fn |-> "deep_parse_agr", raised |-> FALSE, value |-> None ]
    ELSE IF Strip(text) = << >> THEN [ fn |-> "deep_parse_agr", raised |-> TRUE, value |-> None ]
    ELSE [ fn |-> "deep_parse_agr", raised |-> FALSE,
           value |-> IF FirstWord(Strip(text)) = << "date" >> THEN IsoDate(SomeDate)
                     ELSE None ]

AgrParseDatetime ==
    /\ dt_out' = agr_parse_datetime(datetime_text)
    /\ UNCHANGED << datetime_text, cbvars, fnamevars, extvars, date_filter, txvars, agr_run >>
    /\ UNCHANGED << dlvars, scvars, ctvars, tdvars >>
    /\ UNCHANGED << amount_str, amount_out, bids_page, bids, bids_data, bids_outcome, wkvars >>

BidsParseDatetime ==
    /\ dt_out' = bids_parse_datetime(datetime_text)
    /\ UNCHANGED << datetime_text, cbvars, fnamevars, extvars, date_filter, txvars, agr_run >>
    /\ UNCHANGED << dlvars, scvars, ctvars, tdvars >>
    /\ UNCHANGED << amount_str, amount_out, bids_page, bids, bids_data, bids_outcome, wkvars >>

DeepParseDatetime ==
    /\ dt_out' = deep_parse_datetime(datetime_text)
    /\ UNCHANGED << datetime_text, cbvars, fnamevars, extvars, date_filter, txvars, agr_run >>
    /\ UNCHANGED << dlvars, scvars, ctvars, tdvars >>
    /\ UNCHANGED << amount_str, amount_out, bids_page, bids, bids_data, bids_outcome, wkvars >>

NextDatetime ==
    \/ AgrParseDatetime
    \/ BidsParseDatetime
    \/ DeepParseDatetime

InitOthers ==
    /\ InitDownloads /\ InitContract /\ InitTender /\ InitScrape
    /\ InitAmount /\ InitBids /\ InitWorkers

\* no contract block is being assembled, no file has been handed over, no
\* response saved, no datetime text read
IdleBlock ==
    /\ contract_block = [ number |-> "", amount_text |-> << >>, has_span |-> FALSE,
                          span_amount |-> << >>, span_currency |-> << >> ]
    /\ contract_out = NoContract
IdleNames ==
    /\ filename = << >>
    /\ filename_out = [ called |-> FALSE, info |-> NoTenderInfo ]
IdleExtension ==
    /\ response = [ content_type |-> "", url |-> "u1", title |-> "b" ]
    /\ extension_out = NoExtension
IdleDatetime ==
    /\ datetime_text = << >>
    /\ dt_out = NoDatetime
    /\ date_filter = NoDateFilter
\* no tab parser is going through a directory
IdleBatch ==
    /\ batch_parser = "none"
    /\ batch_files = << >>
    /\ conn = [ state |-> "closed", persisted |-> {}, pending |-> {} ]
    /\ failed_rows = {}
    /\ agr_run = NoAgrRun
InitFunctions == IdleBlock /\ IdleNames /\ IdleExtension /\ IdleDatetime /\ IdleBatch

\* a contract block has been read from a snapshot
InitBlock ==
    /\ InitOthers /\ IdleNames /\ IdleExtension /\ IdleDatetime /\ IdleBatch
    /\ contract_block \in ContractBlocks
    /\ contract_out = NoContract

\* a file is about to be handed to parse_file, contracts.db empty
InitNames ==
    /\ InitOthers /\ IdleBlock /\ IdleExtension /\ IdleDatetime /\ IdleBatch
    /\ filename \in FileNames
    /\ filename_out = [ called |-> FALSE, info |-> NoTenderInfo ]

\* a download has succeeded and the file is about to be named
InitExtension ==
    /\ InitOthers /\ IdleBlock /\ IdleNames /\ IdleDatetime /\ IdleBatch
    /\ response \in Responses
    /\ extension_out = NoExtension

\* a date cell has been read
InitDatetime ==
    /\ InitOthers /\ IdleBlock /\ IdleNames /\ IdleExtension /\ IdleBatch
    /\ datetime_text \in DatetimeTexts
    /\ dt_out = NoDatetime
    /\ date_filter = NoDateFilter

\* a tab parser has listed the snapshots of its directory and opened the store
InitBatch ==
    /\ InitOthers /\ IdleBlock /\ IdleNames /\ IdleExtension /\ IdleDatetime
    /\ batch_parser \in BatchParsers
    /\ batch_files \in { [ i \in 1..n |-> i ] : n \in 1..MaxFiles }
    /\ conn = [ state |-> "open", persisted |-> {}, pending |-> {} ]
    /\ failed_rows = {}
    /\ agr_run = NoAgrRun

\* docs.db after parser_app_docs has run over some snapshots, nothing fetched
InitDates ==
    /\ tnd_app_doc_files \in DatedTables
    /\ tnd_agency_docs = << >>
    /\ tnd_agr_files = << >>
    /\ last_batch_ids = NoFile
    /\ manifest_app_doc = NoFile
    /\ manifest_agency_doc = NoFile
    /\ manifest_agr_doc = NoFile
    /\ pc = "idle"
    /\ script = "none"
    /\ tender_ids_to_process = << >>
    /\ files_to_download = << >>
    /\ last_attempt = NoAttempt
    /\ InitContract /\ InitTender /\ InitScrape /\ InitAmount /\ InitBids /\ InitWorkers
    /\ InitFunctions

\* nothing parsed, nothing scraped, nothing downloaded
Init == InitDownloads /\ InitContract /\ InitTender /\ InitScrape /\ InitAmount /\ InitBids /\ InitWorkers /\ InitFunctions

\* the scraper at the head of its stage 2 loop, with one collected tender, a
\* frame loaded from a data_urls.csv that has the five columns, and either
\* value of --update
InitDecide ==
    /\ InitDownloads /\ InitContract /\ InitTender /\ InitAmount /\ InitBids /\ InitWorkers /\ InitFunctions
    /\ existing_tenders_df \in ExistingFrames
    /\ csv_file = IF existing_tenders_df = << >> THEN NoFile
                  ELSE File([ columns |-> RequiredCols, rows |-> existing_tenders_df ])
    /\ UPDATE_FLAG \in BOOLEAN
    /\ \E tender_info \in Collected : all_data = << tender_info >>
    /\ sc_pc = "stage2"
    /\ index = 0
    /\ processed_count = 0
    /\ skipped_count = 0
    /\ last_decision = NoDecision
    /\ persisted = [ a \in Tenders |-> NoSummary ]

Next ==
    \/ ParseAppDocs
    \/ ParseAgencyDocs
    \/ ParseAgrFiles
    \/ StartDownloadAppDocs
    \/ DownloadAppDocFile
    \/ FinishDownloadAppDocs
    \/ StartDownloadAgencyDocs
    \/ DownloadAgencyDoc
    \/ FinishDownloadAgencyDocs
    \/ StartDownloadAgrDocs
    \/ Interrupt
    \/ UpstreamBatchRecorded

Spec == Init /\ [][Next]_vars

\* the runs of the downloaders that are not interrupted: an iteration of the
\* for loop ends (the request has a timeout) and the next one, or the end of
\* main, follows
NextRun ==
    \/ ParseAppDocs
    \/ ParseAgencyDocs
    \/ ParseAgrFiles
    \/ StartDownloadAppDocs
    \/ DownloadAppDocFile
    \/ FinishDownloadAppDocs
    \/ StartDownloadAgencyDocs
    \/ DownloadAgencyDoc
    \/ FinishDownloadAgencyDocs
    \/ StartDownloadAgrDocs
RunGoesOn ==
    \/ DownloadAppDocFile
    \/ FinishDownloadAppDocs
    \/ DownloadAgencyDoc
    \/ FinishDownloadAgencyDocs
SpecRun == Init /\ [][NextRun]_vars /\ WF_vars(RunGoesOn)
SpecContract == Init /\ [][NextContract]_vars
SpecTender == Init /\ [][NextTender]_vars
SpecScrape == Init /\ [][NextScrape]_vars
SpecDecide == InitDecide /\ [][NextDecide]_vars
SpecAmount == Init /\ [][NextAmount]_vars
SpecBids == Init /\ [][NextBids]_vars
SpecWorkers == Init /\ [][NextWorkers]_vars
SpecBlock == InitBlock /\ [][NextBlock]_vars
SpecNames == InitNames /\ [][NextNames]_vars
SpecExtension == InitExtension /\ [][NextExtension]_vars
SpecDatetime == InitDatetime /\ [][NextDatetime]_vars
SpecDates == InitDates /\ [][NextDates]_vars
SpecBatch == InitBatch /\ [][NextBatch]_vars
SpecAgrRun == Init /\ [][NextAgrRun]_vars

(* ===================== properties of the download queue ================ *)
\* the task table a downloader script works on
TaskTable(s) ==
    IF s = "app_docs" THEN tnd_app_doc_files
    ELSE IF s = "agency_docs" THEN tnd_agency_docs
    ELSE tnd_agr_files

\* local_path of a task row (tnd_agr_files has no such column)
LocalPathOf(row) == IF "local_path" \in DOMAIN row THEN row.local_path ELSE NoPath

Terminal(row) == row.download_status \in {"downloaded", "failed"}

\* the downloaded and the failed tasks of a table are the same rows after a step
TerminalTasksKept(table, after) ==
    /\ Len(after) >= Len(table)
    /\ \A i \in 1..Len(table) : Terminal(table[i]) => after[i] = table[i]

\* every task of a table is the same row after a step
ExistingTasksKept(table, after) ==
    /\ Len(after) >= Len(table)
    /\ \A i \in 1..Len(table) : after[i] = table[i]

\* C1: a task that is downloaded or failed never changes again, whatever
\* downloader runs and re-parses follow: a run only ever holds and attempts
\* pending tasks (a failed task is never selected again), no step changes a
\* downloaded or failed row, and a step that is not a loop iteration of a
\* downloader (a parse or re-parse of a snapshot among them) changes no
\* existing row at all
C1_TerminalTasksNeverChange ==
    /\ [](/\ pc = "loop" =>
               \A i \in Range(files_to_download) :
                   TaskTable(script)[i].download_status = "pending"
          /\ last_attempt.was \in {"none", "pending"})
    /\ [][/\ TerminalTasksKept(tnd_app_doc_files, tnd_app_doc_files')
          /\ TerminalTasksKept(tnd_agency_docs, tnd_agency_docs')
          /\ TerminalTasksKept(tnd_agr_files, tnd_agr_files')
          /\ files_to_download' = files_to_download =>
                /\ ExistingTasksKept(tnd_app_doc_files, tnd_app_doc_files')
                /\ ExistingTasksKept(tnd_agency_docs, tnd_agency_docs')
                /\ ExistingTasksKept(tnd_agr_files, tnd_agr_files')]_vars

\* a later run has selected the tender of a failed task and left the task out
C1_FailedTaskLeftOut ==
    /\ pc = "loop" /\ script = "agency_docs" /\ last_attempt = NoAttempt
    /\ \E i \in 1..Len(tnd_agency_docs) :
           /\ tnd_agency_docs[i].download_status = "failed"
           /\ tnd_agency_docs[i].tender_id \in Range(tender_ids_to_process)
           /\ i \notin Range(files_to_download)

\* C2: an attempt whose fetch, write and rename succeeded has committed the
\* task as downloaded with a non-empty local_path, and every downloaded task
\* of every table has a non-empty local_path
C2_DownloadedHasLocalPath ==
    /\ \A i \in 1..Len(tnd_app_doc_files) :
           tnd_app_doc_files[i].download_status = "downloaded"
               => LocalPathOf(tnd_app_doc_files[i]) # NoPath
    /\ \A i \in 1..Len(tnd_agency_docs) :
           tnd_agency_docs[i].download_status = "downloaded"
               => LocalPathOf(tnd_agency_docs[i]) # NoPath
    /\ \A i \in 1..Len(tnd_agr_files) :
           tnd_agr_files[i].download_status = "downloaded"
               => LocalPathOf(tnd_agr_files[i]) # NoPath
    /\ last_attempt.outcome = "ok" =>
           /\ last_attempt.was = "pending"
           /\ TaskTable(last_attempt.script)[last_attempt.id].download_status = "downloaded"
           /\ LocalPathOf(TaskTable(last_attempt.script)[last_attempt.id]) # NoPath

\* the agency downloader has fetched, written and renamed the file of a task
C2_AttemptSucceeded ==
    /\ last_attempt.script = "agency_docs" /\ last_attempt.outcome = "ok"
    /\ tnd_agency_docs[last_attempt.id].download_status = "downloaded"

\* C3: a failed attempt on a pending task (the fetch or the write failed, or
\* the rename did) has committed the task as failed and left its local_path
\* as it was before the attempt
C3_FailedAttemptKeepsLocalPath ==
    last_attempt.outcome \in {"download_failed", "rename_failed"} =>
        /\ last_attempt.was = "pending"
        /\ TaskTable(last_attempt.script)[last_attempt.id].download_status = "failed"
        /\ LocalPathOf(TaskTable(last_attempt.script)[last_attempt.id]) = last_attempt.before

\* the rename of a fetched file has failed
C3_RenameFailed ==
    /\ last_attempt.outcome = "rename_failed"
    /\ tnd_agency_docs[last_attempt.id].download_status = "failed"

(* ======================= properties of the scraper ===================== *)
\* C4: in a run without --update, a collected tender whose application id an
\* earlier run has persisted is skipped when its tender number, start, end and
\* status are the ones that run saw, and processed when one of them differs
C4_UnchangedTenderIsSkipped ==
    ( /\ sc_pc = "stage2"
      /\ last_decision # NoDecision
      /\ ~UPDATE_FLAG
      /\ persisted[last_decision.application_id] # NoSummary )
    => ( last_decision.should_process
           <=> persisted[last_decision.application_id] # Summary(last_decision.tender_info) )

\* C5: the decision on a collected tender is true with --update; else true
\* when the loaded frame has no row of its application id; else true exactly
\* when its tender number, start, end or status differs from that row. The
\* token does not appear in the rule.
C5_DecisionRule ==
    last_decision # NoDecision =>
        LET info == last_decision.tender_info
            same_id == { i \in 1..Len(existing_tenders_df) :
                           existing_tenders_df[i].application_id = info.application_id }
        IN  last_decision.should_process
              <=> \/ UPDATE_FLAG
                  \/ same_id = {}
                  \/ \E i \in same_id :
                        \/ existing_tenders_df[i].tender_num # info.tender_num
                        \/ existing_tenders_df[i].tender_start # info.tender_start
                        \/ existing_tenders_df[i].tender_end # info.tender_end
                        \/ existing_tenders_df[i].tender_status # info.tender_status

\* without --update, a collected tender equal to its row of the frame in all
\* four fields has been skipped
C5_IdenticalTenderSkipped ==
    /\ last_decision # NoDecision
    /\ ~UPDATE_FLAG
    /\ ~last_decision.should_process
    /\ skipped_count = 1

(* ==================== properties of the contract stores ================ *)
\* the snapshots of the contract tab, with and without an attached file
ContractTabSnapshots == AgrSnapshots(<< >>) \cup AgrSnapshots(<< "u1" >>)

\* C6: whenever process_file has run on a snapshot, a second run of it on
\* that snapshot leaves the four tables as the first run left them
C6_ParsingTwiceIsParsingOnce ==
    [][\A snapshot \in ContractTabSnapshots :
          AgrStore' = ProcessFileResult(AgrStore, snapshot)
              => ProcessFileResult(AgrStore', snapshot) = AgrStore']_vars

\* C7: every tender has at most one contract row, in tnd_agr_doc of
\* parse_agr_docs and in contracts of deep_parse_agr
C7_OneContractPerTender ==
    \A t \in Tenders :
        /\ Cardinality({ r \in tnd_agr_doc : r.tender_id = t }) <= 1
        /\ Cardinality({ i \in 1..Len(contracts) : contracts[i].tender_id = t }) <= 1

\* C8: tnd_agr_payments holds at most one row for every (tender_id, amount,
\* payment_date, type)
C8_OnePaymentRowPerKey ==
    \A i, j \in 1..Len(tnd_agr_payments) :
        ( /\ tnd_agr_payments[i].tender_id = tnd_agr_payments[j].tender_id
          /\ tnd_agr_payments[i].amount = tnd_agr_payments[j].amount
          /\ tnd_agr_payments[i].payment_date = tnd_agr_payments[j].payment_date
          /\ tnd_agr_payments[i].type = tnd_agr_payments[j].type )
        => i = j

(* ==================== properties of the tenders tables ================= *)
\* after process_file on a snapshot, the contract row of its tender is the
\* one the snapshot yields
ContractRowIsLatest(store, snapshot) ==
    { r \in ProcessFileResult(store, snapshot).doc : r.tender_id = snapshot.tender_id }
        = { extract_metadata(snapshot) }

\* C9: the row stored for a natural key holds the values of the latest parse
\* of that key: the tenders row of the main-tab parser, the tenders row of
\* the bid-tab parser, and the contract row of parse_agr_docs
C9_LaterParseWins ==
    /\ tender_parsed.parser = "app_main" =>
          /\ \E i \in 1..Len(main_tenders) : main_tenders[i] = tender_parsed.row
          /\ \A i \in 1..Len(main_tenders) :
                main_tenders[i].tender_db_id = tender_parsed.row.tender_db_id
                    => main_tenders[i] = tender_parsed.row
    /\ tender_parsed.parser = "app_bids" =>
          /\ \E i \in 1..Len(bids_tenders) : bids_tenders[i] = tender_parsed.row
          /\ \A i \in 1..Len(bids_tenders) :
                bids_tenders[i].application_id = tender_parsed.row.application_id
                    => bids_tenders[i] = tender_parsed.row
    /\ \A snapshot \in ContractTabSnapshots : ContractRowIsLatest(AgrStore, snapshot)

\* C10: no two stored tender records share an application id, in the tenders
\* table of the main-tab parser, in the tenders table of the bid-tab parser
\* and in data_urls.csv
C10_ApplicationIdUnique ==
    /\ \A i, j \in 1..Len(main_tenders) :
          main_tenders[i].tender_db_id = main_tenders[j].tender_db_id => i = j
    /\ \A i, j \in 1..Len(bids_tenders) :
          bids_tenders[i].application_id = bids_tenders[j].application_id => i = j
    /\ csv_file.exists =>
          \A i, j \in 1..Len(csv_file.content.rows) :
              csv_file.content.rows[i].application_id
                  = csv_file.content.rows[j].application_id => i = j

(* ==================== properties of the task tables ==================== *)
\* C11: in each of tnd_app_doc_files, tnd_agency_docs and tnd_agr_files no
\* two tasks have the same source URL
C11_SourceUrlUnique ==
    /\ \A i, j \in 1..Len(tnd_app_doc_files) :
          tnd_app_doc_files[i].file_url = tnd_app_doc_files[j].file_url => i = j
    /\ \A i, j \in 1..Len(tnd_agency_docs) :
          tnd_agency_docs[i].doc_url = tnd_agency_docs[j].doc_url => i = j
    /\ \A i, j \in 1..Len(tnd_agr_files) :
          tnd_agr_files[i].url = tnd_agr_files[j].url => i = j

\* the pending tasks of the first n distinct owners (ascending) that have a
\* pending task
PendingOfFirstOwners(table, col, n) ==
    LET pending == { i \in 1..Len(table) : table[i].download_status = "pending" }
        owners == { table[i][col] : i \in pending }
        first == { t \in owners : Cardinality({ u \in owners : u < t }) < n }
    IN  { i \in pending : table[i][col] \in first }

\* C12: a run started with batch size n >= 0 and without --use-last-batch
\* fetches exactly the pending tasks of the first n owners with a pending
\* task, and a run without batch size the pending tasks of all of them, in
\* the three downloaders
C12_BatchSelection ==
    pc = "idle" =>
        \A n \in 0..MaxBatch :
            /\ Range(AppDocsFetched(n))
                  = PendingOfFirstOwners(tnd_app_doc_files, "tender_db_id", n)
            /\ Range(AgencyDocsFetched(n, FALSE))
                  = PendingOfFirstOwners(tnd_agency_docs, "tender_id", n)
            /\ Range(AgrDocsFetched(n, FALSE))
                  = PendingOfFirstOwners(tnd_agr_files, "tender_id", n)
            /\ Range(AppDocsFetched(NoBatch))
                  = PendingOfFirstOwners(tnd_app_doc_files, "tender_db_id",
                                         Len(tnd_app_doc_files))
            /\ Range(AgencyDocsFetched(NoBatch, FALSE))
                  = PendingOfFirstOwners(tnd_agency_docs, "tender_id",
                                         Len(tnd_agency_docs))
            /\ Range(AgrDocsFetched(NoBatch, FALSE))
                  = PendingOfFirstOwners(tnd_agr_files, "tender_id",
                                         Len(tnd_agr_files))

\* the pending tasks of the owners in the recorded batch
PendingOfBatch(table, col) ==
    { i \in 1..Len(table) : /\ table[i].download_status = "pending"
                            /\ table[i][col] \in Range(last_batch_ids.content) }

\* C13: an agency or agr downloader run started with --use-last-batch
\* fetches the pending tasks of the tender ids the upstream run recorded as
\* its batch, whatever its batch size, and nothing when no batch is recorded
C13_UseLastBatch ==
    pc = "idle" =>
        \A n \in BatchSizes :
            IF last_batch_ids.exists
            THEN /\ Range(AgencyDocsFetched(n, TRUE))
                       = PendingOfBatch(tnd_agency_docs, "tender_id")
                 /\ Range(AgrDocsFetched(n, TRUE))
                       = PendingOfBatch(tnd_agr_files, "tender_id")
            ELSE /\ AgencyDocsFetched(n, TRUE) = << >>
                 /\ AgrDocsFetched(n, TRUE) = << >>

\* a manifest has the columns (id, owner, local_path) and holds exactly one
\* row for every downloaded task of the table and no other row; a missing
\* file has no rows
ManifestMatches(manifest, table, col) ==
    LET downloaded == { i \in 1..Len(table) : table[i].download_status = "downloaded" }
    IN  IF ~manifest.exists THEN downloaded = {}
        ELSE /\ Head(manifest.content) = << "id", col, "local_path" >>
             /\ Range(Tail(manifest.content))
                   = { << i, table[i][col], table[i].local_path >> : i \in downloaded }
             /\ Len(manifest.content) = Cardinality(downloaded) + 1

\* C14: when no downloader is running, each of the three manifests has
\* exactly one row (task id, owner id, local path) for every downloaded task
\* of its table and no row for any other task
C14_ManifestOfDownloadedTasks ==
    pc = "idle" =>
        /\ ManifestMatches(manifest_app_doc, tnd_app_doc_files, "tender_db_id")
        /\ ManifestMatches(manifest_agency_doc, tnd_agency_docs, "tender_id")
        /\ ManifestMatches(manifest_agr_doc, tnd_agr_files, "tender_id")

\* C15: when a downloader stops (killed inside its loop, or at its end), the
\* task tables are as the last commit left them, every selected task not yet
\* attempted is pending, and a run without arguments on these tables fetches it
C15_InterruptedRunIsResumable ==
    [][pc = "loop" /\ pc' = "idle" =>
          /\ tnd_app_doc_files' = tnd_app_doc_files
          /\ tnd_agency_docs' = tnd_agency_docs
          /\ tnd_agr_files' = tnd_agr_files
          /\ \A i \in Range(files_to_download) :
                /\ TaskTable(script)[i].download_status = "pending"
                /\ script = "app_docs" => i \in Range(AppDocsFetched(NoBatch))
                /\ script = "agency_docs"
                      => i \in Range(AgencyDocsFetched(NoBatch, FALSE))]_vars

\* a run was killed after it committed a download and before it attempted
\* another task of the tender: no manifest was written, one task is
\* downloaded and one is pending
C15_KilledAfterFirstCommit ==
    /\ pc = "idle"
    /\ ~manifest_agency_doc.exists
    /\ \E i, j \in 1..Len(tnd_agency_docs) :
          /\ tnd_agency_docs[i].download_status = "downloaded"
          /\ tnd_agency_docs[j].download_status = "pending"
          /\ tnd_agency_docs[i].tender_id = tnd_agency_docs[j].tender_id

(* ================== properties of the tab parser loops ================= *)
\* C16: in the loop of a tab parser, each step with files left after the
\* current one goes on to those files, whether the current file parsed or
\* raised, and keeps the rows stored for earlier files
C16_BatchSurvivesBadFile ==
    [][td_pc # "idle" /\ Tail(html_files) # << >> =>
          /\ td_pc' = td_pc
          /\ html_files' = Tail(html_files)
          /\ Len(main_tenders') >= Len(main_tenders)
          /\ SubSeq(main_tenders', 1, Len(main_tenders)) = main_tenders
          /\ Len(bids_tenders') >= Len(bids_tenders)
          /\ SubSeq(bids_tenders', 1, Len(bids_tenders)) = bids_tenders]_vars

(* ========================= properties of amounts ======================= *)
\* the amount the rule of the specification gives a text: the digits before
\* the last point or comma are the whole part, the digits after it the decimals
NormalizedAmount(text) ==
    LET marks == { i \in 1..Len(text) : text[i] \in { ".", "," } }
        last == IF marks = {} THEN Len(text) + 1
                ELSE CHOOSE i \in marks : \A j \in marks : j <= i
        digits(s) == SelectSeq(s, LAMBDA c : c \in DigitChars)
        whole == digits(SubSeq(text, 1, last - 1))
        frac == digits(SubSeq(text, last + 1, Len(text)))
    IN  NatValue(whole) * Scale + NatValue(frac) * 10 ^ (MaxFrac - Len(frac))

\* C20: whichever amount parser is handed a text, it does not raise and it
\* returns the amount of the text after normalisation (separator and foreign
\* characters removed, comma as decimal point, only the last point kept), 0.0
\* when the text holds no number
C20_AmountParsingNeverRaises ==
    amount_out.fn # "none" =>
        /\ ~ amount_out.raised
        /\ amount_out.value = NormalizedAmount(amount_str)

(* =========================== properties of bids ======================== *)
\* the last row of the page for the bidder of row i: the one INSERT OR
\* REPLACE leaves in the table
LastRowOfBidder(rows, i) ==
    \A j \in 1..Len(rows) : rows[j].bidder_id = rows[i].bidder_id => j <= i

\* C17: once a bids page has been parsed, every bid row of it is persisted,
\* a row that lacks its strong element with the amount 0 and a row that lacks
\* its date span with a null date; a missing element never costs the page
\* its other bids
C17_MissingElementKeepsOtherBids ==
    bids_outcome # "none" =>
        \A i \in 1..Len(bids_page.rows) :
            LastRowOfBidder(bids_page.rows, i) =>
                \E b \in bids :
                    /\ b.application_id = bids_page.app_id
                    /\ b.bidder_id = bids_page.rows[i].bidder_id
                    /\ b.last_offer_amount =
                           IF bids_page.rows[i].has_strong
                           THEN NormalizedAmount(bids_page.rows[i].strong) ELSE 0
                    /\ b.last_offer_datetime =
                           IF bids_page.rows[i].has_date
                           THEN parse_datetime(bids_page.rows[i].date) ELSE NULL

\* the position the ranking rule gives row i of a bid table: behind every
\* row of a smaller last offer and every earlier row of the same last offer
RankOfRow(rows, i) ==
    1 + Cardinality({ j \in 1..Len(rows) :
                        \/ NormalizedAmount(rows[j].strong) < NormalizedAmount(rows[i].strong)
                        \/ /\ NormalizedAmount(rows[j].strong) = NormalizedAmount(rows[i].strong)
                           /\ j < i })

\* C19: when the bids of a page have been ranked, the bid of every row
\* stands in bids_data at the 1-based position of its last offer in
\* ascending order, rows of equal last offer in their input order, and its
\* final_rank is that position
C19_RankIsStablePosition ==
    bids_outcome = "saved" =>
        /\ Len(bids_data) = Len(bids_page.rows)
        /\ \A i \in 1..Len(bids_page.rows) :
             LET rank == RankOfRow(bids_page.rows, i)
             IN  /\ bids_data[rank].final_rank = rank
                 /\ bids_data[rank].bidder_id = bids_page.rows[i].bidder_id
                 /\ bids_data[rank].last_offer_amount =
                        NormalizedAmount(bids_page.rows[i].strong)

\* last offers 500, 300, 300 of three rows, the two of 300 by different
\* bidders, ranked 3, 1, 2
C19_TieKeepsRowOrder ==
    /\ bids_outcome = "saved"
    /\ Len(bids_page.rows) = 3
    /\ bids_page.rows[1].strong = << "5", "0", "0" >>
    /\ bids_page.rows[2].strong = << "3", "0", "0" >>
    /\ bids_page.rows[3].strong = << "3", "0", "0" >>
    /\ bids_page.rows[2].bidder_id # bids_page.rows[3].bidder_id
    /\ bids_data[1].bidder_id = bids_page.rows[2].bidder_id
    /\ bids_data[2].bidder_id = bids_page.rows[3].bidder_id
    /\ bids_data[3].bidder_id = bids_page.rows[1].bidder_id
    /\ [ i \in 1..3 |-> bids_data[i].final_rank ] = << 1, 2, 3 >>

(* ===================== properties of concurrent runs =================== *)
\* C18: with two runs of a downloader on the same task table, no task is in
\* the work list of both runs, and a task a run fetches is still pending:
\* it has had no transition before
C18_TaskOwnedByOneRun ==
    /\ pc = "loop" /\ other_run.pc = "loop" /\ script = other_run.script =>
           Range(files_to_download) \cap Range(other_run.files_to_download) = {}
    /\ last_attempt.script # "none" => last_attempt.was = "pending"

C24_StructuredAmountWins ==
    contract_out.parser = "parse_agr_docs" /\ contract_block.has_span =>
        /\ contract_out.contract_amount = NormalizedAmount(contract_block.span_amount)
        /\ contract_out.contract_currency = contract_block.span_currency

(* ====================== properties of file names ======================= *)
\* the form pg_{code}_{applicationId}_{tabName}.html: from the first
\* character pg_, a code of upper-case letters and digits, an id of digits,
\* then a tab name and the extension .html
HasSnapshotForm(name) ==
    /\ NameMatchAt(name, 1) # << 0, 0 >>
    /\ NameMatchAt(name, 1)[2] + 2 <= Len(name) - 1
    /\ name[Len(name)] = ".html"

\* C22: for a file name of the form pg_{code}_{applicationId}_{tabName}.html
\* extract_tender_info_from_filename returns the code and the id as an
\* integer; for any other name it returns (None, None) and parse_file
\* persists nothing
C22_TenderInfoFromFilename ==
    filename_out.called =>
        IF HasSnapshotForm(filename)
        THEN /\ filename_out.info.found
             /\ filename_out.info.tender_code =
                    SubSeq(filename, 4, NameMatchAt(filename, 1)[1])
             /\ filename_out.info.tender_id =
                    NatValue(SubSeq(filename, NameMatchAt(filename, 1)[1] + 2,
                                    NameMatchAt(filename, 1)[2]))
        ELSE /\ filename_out.info = NoTenderInfo
             /\ contract_tenders = {}

(* ==================== properties of a completed run ==================== *)
\* the selected tasks a run has not attempted yet are pending and listed once
SelectedTasksWait ==
    pc = "loop" =>
        /\ \A i, j \in 1..Len(files_to_download) :
               i # j => files_to_download[i] # files_to_download[j]
        /\ \A i \in 1..Len(files_to_download) :
               TaskTable(script)[files_to_download[i]].download_status = "pending"

\* a step of a run: the attempt of the first task not yet attempted, which
\* takes it off the list and out of pending whatever the outcome and leaves
\* the rest of the list to be attempted; or the end of the run, once the list
\* is empty; any other step leaves the run where it is
RunStep ==
    pc = "loop" =>
        \/ /\ files_to_download # << >>
           /\ files_to_download' = Tail(files_to_download)
           /\ pc' = "loop"
           /\ last_attempt'.id = Head(files_to_download)
           /\ last_attempt'.was = "pending"
           /\ IF script = "app_docs"
              THEN tnd_app_doc_files'[Head(files_to_download)].download_status
                       \in {"downloaded", "failed"}
              ELSE tnd_agency_docs'[Head(files_to_download)].download_status
                       \in {"downloaded", "failed"}
        \/ /\ files_to_download = << >>
           /\ pc' = "idle"
        \/ /\ files_to_download' = files_to_download
           /\ pc' = "loop"

\* C23: in a run that is not interrupted every selected task is attempted
\* exactly once, in turn, and leaves pending, a failed attempt is followed
\* by the attempt of the next task like a successful one, and the run ends
C23_RunAttemptsEverySelectedTask ==
    /\ [] SelectedTasksWait
    /\ [][RunStep]_vars
    /\ (pc = "loop") ~> (pc = "idle")

\* a run at its end whose first task failed and whose second was downloaded
C23_FailureThenNextTask ==
    /\ pc = "loop" /\ files_to_download = << >>
    /\ Len(TaskTable(script)) >= 2
    /\ TaskTable(script)[1].download_status = "failed"
    /\ TaskTable(script)[2].download_status = "downloaded"
    /\ last_attempt.id = 2

(* ------------------------------- C25 ---------------------------------- *)
\* the first usable of a sequence of candidate extensions
RECURSIVE FirstUsable(_)
FirstUsable(candidates) ==
    IF candidates = << >> THEN ""
    ELSE IF Head(candidates) # "" THEN Head(candidates)
    ELSE FirstUsable(Tail(candidates))

Usable(ext) == IF ShortExt(ext) THEN ext ELSE ""

\* C25: in every downloader the extension chosen for a downloaded file is
\* the first usable result of the content-type header, the suffix of the
\* URL path and the suffix of the original file name, in this order.
C25_FirstUsableSourceWins ==
    extension_out.script # "none" =>
        extension_out.extension =
            FirstUsable(<< guess_extension(response.content_type),
                           Usable(UrlExt(response.url)),
                           Usable(SplitExt(response.title)) >>)

(* ------------------------------- C26 ---------------------------------- *)
\* what the datetime parsers are to return for a text
ExpectedDatetime(text) ==
    IF ~ StrptimeRaises(text) THEN IsoDatetime(SomeDate, SomeTime)
    ELSE IF text # << >> /\ text[1] = "date" THEN IsoDate(SomeDate)
    ELSE None

\* C26: every datetime parser returns the ISO datetime for a valid
\* DD.MM.YYYY HH:MM text, otherwise the ISO date when the text starts with
\* a DD.MM.YYYY date and absent when it does not, and never raises.
C26_DatetimeFallsBackToDate ==
    dt_out.fn # "none" =>
        /\ ~ dt_out.raised
        /\ dt_out.value = ExpectedDatetime(datetime_text)

(* ------------------------------- C27 ---------------------------------- *)
\* C27: a run of the app-docs downloader with --date-from and --date-to
\* fetches only tasks whose upload_date lies in the range; the pending
\* tasks outside the range are not among the files of the run.
C27_FetchedTasksAreInRange ==
    (pc = "loop" /\ script = "app_docs") =>
        \A i \in Range(files_to_download) :
            Between(tnd_app_doc_files[i].upload_date,
                    date_filter.date_from, date_filter.date_to)

(* ------------------------------- C28 ---------------------------------- *)
\* C28: when the processing of a snapshot fails part-way, none of the rows
\* written for it before the failure is persisted, not even by the commit
\* issued for a later file on the same connection.
C28_FailedFileLeavesNoRows == conn.persisted \cap failed_rows = {}

(* ------------------------------- C29 ---------------------------------- *)
\* C29: when a run of the agr downloader without batch cap has ended, its
\* queries have gone through and every task the contract-tab parser had
\* enqueued before it has left the state pending.
C29_AgrRunFetchesParserTasks ==
    (agr_run.ended /\ agr_run.batch_size = NoBatch /\ ~ agr_run.use_last_batch) =>
        /\ ~ agr_run.raised
        /\ \A i \in agr_run.pending_before :
               tnd_agr_files[i].download_status # "pending"

(* ------------------------------- C30 ---------------------------------- *)
\* the final_rank values stored for a tender
StoredRanks(application_id) ==
    { b.final_rank : b \in { r \in bids : r.application_id = application_id } }

\* C30: after parse_bids_file has persisted the bids of a tender, the
\* final_rank values stored for it are exactly 1..k, k the number of bid
\* rows stored for the tender, whatever bidder ids the table repeats.
C30_StoredRanksAreDense ==
    bids_outcome = "saved" =>
        StoredRanks(bids_page.app_id) =
            1..Cardinality({ r \in bids : r.application_id = bids_page.app_id })

====
